---- MODULE Spec2Model ----
(***************************************************************************)
(* State-machine model of the QuickInterview AI core:                      *)
(*   - the useSpeechRecognition hook (src/hooks/useSpeechRecognition.ts)   *)
(*     together with the recognition device that drives its callbacks and  *)
(*     the React render that runs its ref-synchronising effects;           *)
(*   - the transcript correction pipeline (speechCorrections);             *)
(*   - generateAnswerStream (src/services/geminiService.ts);               *)
(*   - generateAnswerWithProvider (src/services/aiProviderService.ts) and  *)
(*     the sessions, messages and storage of App (src/App.tsx).            *)
(* In the hook, text is a sequence of word tokens: joining with single     *)
(* spaces is concatenation, the empty string is <<>>, and trim() is        *)
(* absorbed by the tokenisation. correctTechnicalTerms is modelled a       *)
(* second time on sequences of characters, where word boundaries, trim()   *)
(* and the collapse of spaces are computed as the regular expressions do.  *)
(***************************************************************************)
EXTENDS Integers, Sequences, FiniteSets, TLC

VARIABLES
  \* ---- recognition device and hook (useSpeechRecognition) ----
  device,                  \* "idle" | "starting" | "listening" | "stopping";
                           \* "unavailable" when the browser has no SpeechRecognition
  isRecording,             \* React state
  isRecordingRef,          \* ref, written only by the effect after a render
  transcript,              \* React state (what the hook returns)
  rEmpty,                  \* whether `transcript` was '' at the last committed render
  transcriptRef,           \* ref read by onend
  skipOnStopRef,
  isManualStopRef,
  lastProcessedIndexRef,
  finalTranscriptPartsRef,
  isMobileRef,
  \* ---- observation of the hook (history, not program state) ----
  onStopLog,               \* texts passed to options.onStop since the last start request
  hStop,                   \* stopRecording took effect during this session
  hCancel,                 \* cancelRecording was called during this session
  hError,                  \* the device raised an error during this session
  hCommitted,              \* final fragments behind the last built transcript
  lastEv,                  \* event delivered by the preceding step, if any
  \* ---- generateAnswerStream (geminiService) ----
  gPc,                     \* "idle" | "loop" | "streaming" | "sleeping" | "resolved" | "rejected"
  attempt,
  gRequests,               \* requests issued to the backend
  gStatuses,               \* status of each failed attempt, in order
  gWaits,                  \* backoff delays slept, in order
  gClock,                  \* ms elapsed in sleeps since the call started
  gReqTimes,               \* gClock at each request
  gProduced,               \* chunks the backend produced in this attempt
  gDelivered,              \* chunks passed to onChunk, whole call
  gPrior,                  \* gDelivered when the current attempt was requested
  gError,                  \* message of the rejection
  gLastErr,                \* the error caught last
  defaultApiKey,           \* whether process.env.API_KEY is set
  \* ---- App and generateAnswerWithProvider ----
  provider,                \* providerSettings.provider
  optionsApiKey,           \* whether providerSettings.apiKey is set
  aPc,                     \* handleGetAnswer: "idle" | "awaiting" | "done"
  modelMessageId,          \* id of the message shell of the running call
  aSession,                \* activeSessionId in the closure of the running call
  chatMessages,            \* React state: messages of the displayed session
  sessions,                \* React state: [id, messages], newest first
  activeSessionId,         \* React state; 0 stands for ''
  isGenerating,            \* React state
  isHydrated,              \* React state
  localStorage,            \* the item stored under STORAGE_KEY
  appCrashed,              \* a render of App has thrown
  \* ---- reconciliation of two event runs ----
  probe                    \* the two runs and what each emits at a manual stop

speechVars == <<device, isRecording, isRecordingRef, transcript, rEmpty,
                transcriptRef, skipOnStopRef, isManualStopRef,
                lastProcessedIndexRef, finalTranscriptPartsRef, isMobileRef,
                onStopLog, hStop, hCancel, hError, hCommitted, lastEv>>

geminiVars == <<gPc, attempt, gRequests, gStatuses, gWaits, gClock, gReqTimes,
                gProduced, gDelivered, gPrior, gError, gLastErr,
                defaultApiKey>>

storeVars == <<isHydrated, localStorage, appCrashed>>

appVars == <<provider, optionsApiKey, aPc, modelMessageId, aSession, chatMessages,
             sessions, activeSessionId, isGenerating, storeVars>>

vars == <<speechVars, geminiVars, appVars, probe>>

\* No reconciliation probe.
NoProbe == <<>>

\* ---------------------------------------------------------------- bounds
MaxParts == 2
MaxSlots == 2
MaxChunks == 2
MaxSessions == 2
MaxPhrases == 2

\* ------------------------------------------------------------------ text
\* Lower-case / capitalised pairs of the vocabulary.
CasePairs ==
  { <<"explain", "Explain">>, <<"care", "Care">>, <<"char", "Char">>,
    <<"hash", "Hash">>, <<"map", "Map">>, <<"data", "Data">>,
    <<"type", "Type">>, <<"datatype", "Datatype">> }

Vocabulary == {p[1] : p \in CasePairs} \cup {p[2] : p \in CasePairs}

LowerOf ==
  [w \in Vocabulary |->
     IF \E p \in CasePairs : p[2] = w
       THEN (CHOOSE p \in CasePairs : p[2] = w)[1]
       ELSE w]

UpperFirstOf ==
  [w \in Vocabulary |->
     IF \E p \in CasePairs : p[1] = w
       THEN (CHOOSE p \in CasePairs : p[1] = w)[2]
       ELSE w]

\* String.prototype.toLowerCase on one word.
toLowerCase(w) == LowerOf[w]

\* charAt(0).toUpperCase() + slice(1) on one word.
toUpperFirst(w) == UpperFirstOf[w]

\* The entries of TECHNICAL_CORRECTIONS that touch the vocabulary, in the
\* table's enumeration order (wrong, correct).
TECHNICAL_CORRECTIONS ==
  << <<"care", "char">>, <<"chair", "char">>, <<"car", "char">>,
     <<"chore", "char">>, <<"hash", "hash">>, <<"map", "map">>,
     <<"explain", "explain">> >>

\* text.toLowerCase()
LowerAll(t) == [i \in 1..Len(t) |-> toLowerCase(t[i])]

\* corrected.replace(/\bwrong\b/gi, correct) for a one-word `wrong`.
ReplaceWord(t, wrong, correct) ==
  [i \in 1..Len(t) |-> IF toLowerCase(t[i]) = wrong THEN correct ELSE t[i]]

RECURSIVE ApplyCorrections(_, _)
ApplyCorrections(t, k) ==
  IF k > Len(TECHNICAL_CORRECTIONS) THEN t
  ELSE ApplyCorrections(
         ReplaceWord(t, TECHNICAL_CORRECTIONS[k][1], TECHNICAL_CORRECTIONS[k][2]),
         k + 1)

HomophoneWords == {"care", "chair", "chore"}
ContextWords ==
  {"int", "string", "bool", "float", "double", "void", "datatype",
   "programming", "code", "variable", "function", "explain", "what",
   "difference", "between", "define", "describe"}

HasWord(t, S) == \E i \in 1..Len(t) : toLowerCase(t[i]) \in S

\* hasTechnicalContext: a context word, or "data type" in two words.
HasTechnicalContext(t) ==
  \/ HasWord(t, ContextWords)
  \/ \E i \in 1..(Len(t) - 1) :
       toLowerCase(t[i]) = "data" /\ toLowerCase(t[i + 1]) = "type"

ContextGate(t) ==
  IF HasWord(t, HomophoneWords) /\ HasTechnicalContext(t)
    THEN [i \in 1..Len(t) |->
            IF toLowerCase(t[i]) \in HomophoneWords THEN "char" ELSE t[i]]
    ELSE t

CapitalizeFirst(t) ==
  IF t = <<>> THEN t ELSE <<toUpperFirst(t[1])>> \o Tail(t)

correctTechnicalTerms(t) ==
  IF t = <<>> THEN t
  ELSE CapitalizeFirst(ContextGate(ApplyCorrections(LowerAll(t), 1)))

\* .replace(/\bdata\s+type\b/gi, 'datatype')
RECURSIVE MergeDataType(_)
MergeDataType(t) ==
  IF Len(t) < 2 THEN t
  ELSE IF toLowerCase(t[1]) = "data" /\ toLowerCase(t[2]) = "type"
    THEN <<"datatype">> \o MergeDataType(Tail(Tail(t)))
    ELSE <<t[1]>> \o MergeDataType(Tail(t))

postProcessTranscript(t) ==
  IF t = <<>> THEN t ELSE MergeDataType(correctTechnicalTerms(t))

RECURSIVE Join(_)
Join(frags) == IF frags = <<>> THEN <<>> ELSE Head(frags) \o Join(Tail(frags))

\* ------------------------------------------------ text as characters
\* The corrections again, on a text that is the list of its characters, so
\* that word boundaries, letter case and punctuation are computed and not
\* assumed.
Letters ==
  <<"a", "b", "c", "d", "e", "f", "g", "h", "i", "j", "k", "l", "m", "n", "o",
  "p", "q", "r", "s", "t", "u", "v", "w", "x", "y", "z">>
Capitals ==
  <<"A", "B", "C", "D", "E", "F", "G", "H", "I", "J", "K", "L", "M", "N", "O",
  "P", "Q", "R", "S", "T", "U", "V", "W", "X", "Y", "Z">>

\* String.prototype.toLowerCase
toLowerCaseChars(s) ==
  [i \in 1..Len(s) |->
     IF \E k \in 1..26 : Capitals[k] = s[i]
       THEN Letters[CHOOSE k \in 1..26 : Capitals[k] = s[i]]
       ELSE s[i]]

\* charAt(0).toUpperCase() + slice(1)
CapitalizeFirstChar(s) ==
  IF s = <<>> THEN s
  ELSE IF \E k \in 1..26 : Letters[k] = s[1]
    THEN <<Capitals[CHOOSE k \in 1..26 : Letters[k] = s[1]]>> \o Tail(s)
    ELSE s

\* String.prototype.trim; the only white space of the texts is the blank.
trim(s) ==
  LET inked == {i \in 1..Len(s) : s[i] # " "}
  IN IF inked = {} THEN <<>>
     ELSE SubSeq(s, CHOOSE i \in inked : \A j \in inked : i <= j,
                    CHOOSE i \in inked : \A j \in inked : j <= i)

\* \b before position p of s: exactly one of the characters on its two sides
\* is a word character (no digit or underscore occurs in the texts).
WordBoundary(s, p) ==
  LET IsWordChar(q) ==
        /\ q \in 1..Len(s)
        /\ \E k \in 1..26 : s[q] = Letters[k] \/ s[q] = Capitals[k]
  IN IsWordChar(p - 1) # IsWordChar(p)

\* Variant: the pattern without its word boundaries.
MatchesAt_NoBoundary(s, i, wrong) ==
  /\ i + Len(wrong) - 1 <= Len(s)
  /\ toLowerCaseChars(SubSeq(s, i, i + Len(wrong) - 1)) = wrong

\* /\bwrong\b/i matches s at position i (line 135).
MatchesAt(s, i, wrong) ==
  /\ i + Len(wrong) - 1 <= Len(s)
  /\ toLowerCaseChars(SubSeq(s, i, i + Len(wrong) - 1)) = wrong
  /\ WordBoundary(s, i)
  /\ WordBoundary(s, i + Len(wrong))

\* s.slice(i - 1).replace(/\bwrong\b/gi, correct) with the boundaries of s;
\* the scan goes on behind a match and never looks into the replacement.
RECURSIVE ReplaceFrom(_, _, _, _)
ReplaceFrom(s, i, wrong, correct) ==
  IF i > Len(s) THEN <<>>
  ELSE IF MatchesAt(s, i, wrong)
    THEN correct \o ReplaceFrom(s, i + Len(wrong), wrong, correct)
    ELSE <<s[i]>> \o ReplaceFrom(s, i + 1, wrong, correct)

\* regex.test(s) for an alternation of literal words between \b.
TestWords(s, words) ==
  \E wrong \in words : \E i \in 1..Len(s) : MatchesAt(s, i, wrong)

\* .replace(/\s+/g, ' ')
RECURSIVE CollapseSpaces(_)
CollapseSpaces(s) ==
  IF Len(s) < 2 THEN s
  ELSE IF s[1] = " " /\ s[2] = " " THEN CollapseSpaces(Tail(s))
  ELSE <<s[1]>> \o CollapseSpaces(Tail(s))

\* The entries of TECHNICAL_CORRECTIONS that can match a text made of
\* Phrases, or the corrected form of one, in the table's enumeration order.
TECHNICAL_CORRECTIONS_CHARS ==
  << <<<<"c", "a", "r", "e">>, <<"c", "h", "a", "r">>>>,
     <<<<"c", "h", "a", "i", "r">>, <<"c", "h", "a", "r">>>>,
     <<<<"c", "a", "r">>, <<"c", "h", "a", "r">>>>,
     <<<<"c", "h", "o", "r", "e">>, <<"c", "h", "a", "r">>>>,
     <<<<"r", "e", "a", "c", "t">>, <<"R", "e", "a", "c", "t">>>>,
     <<<<"n", "o", "d", "e">>, <<"N", "o", "d", "e", ".", "j", "s">>>>,
     <<<<"c", " ", "s", "h", "a", "r", "p">>, <<"C", "#">>>>,
     <<<<"b", "i", "g", " ", "o">>, <<"B", "i", "g", " ", "O">>>>,
     <<<<"o", " ", "o", "f", " ", "n">>, <<"O", "(", "n", ")">>>>,
     <<<<"e", "x", "p", "l", "a", "i", "n">>, <<"e", "x", "p", "l", "a", "i", "n">>>> >>

\* The words of the two regular expressions of lines 143-147; data\s*type
\* is spelled with no blank and with one.
HOMOPHONES_CHARS ==
  { <<"c", "a", "r", "e">>,
    <<"c", "h", "a", "i", "r">>,
    <<"c", "h", "o", "r", "e">> }

CONTEXT_CHARS ==
  { <<"i", "n", "t">>,
    <<"s", "t", "r", "i", "n", "g">>,
    <<"b", "o", "o", "l">>,
    <<"f", "l", "o", "a", "t">>,
    <<"d", "o", "u", "b", "l", "e">>,
    <<"v", "o", "i", "d">>,
    <<"d", "a", "t", "a", " ", "t", "y", "p", "e">>,
    <<"d", "a", "t", "a", "t", "y", "p", "e">>,
    <<"p", "r", "o", "g", "r", "a", "m", "m", "i", "n", "g">>,
    <<"c", "o", "d", "e">>,
    <<"v", "a", "r", "i", "a", "b", "l", "e">>,
    <<"f", "u", "n", "c", "t", "i", "o", "n">>,
    <<"e", "x", "p", "l", "a", "i", "n">>,
    <<"w", "h", "a", "t">>,
    <<"d", "i", "f", "f", "e", "r", "e", "n", "c", "e">>,
    <<"b", "e", "t", "w", "e", "e", "n">>,
    <<"d", "e", "f", "i", "n", "e">>,
    <<"d", "e", "s", "c", "r", "i", "b", "e">> }

\* The forEach of lines 133-138 from entry k on.
RECURSIVE ApplyCorrectionsChars(_, _)
ApplyCorrectionsChars(s, k) ==
  IF k > Len(TECHNICAL_CORRECTIONS_CHARS) THEN s
  ELSE ApplyCorrectionsChars(
         ReplaceFrom(s, 1, TECHNICAL_CORRECTIONS_CHARS[k][1],
                           TECHNICAL_CORRECTIONS_CHARS[k][2]),
         k + 1)

\* Lines 140-151: care, chair and chore become char in a technical context.
ContextGateChars(s) ==
  LET char == <<"c", "h", "a", "r">>
  IN IF TestWords(s, HOMOPHONES_CHARS) /\ TestWords(s, CONTEXT_CHARS)
       THEN ReplaceFrom(ReplaceFrom(ReplaceFrom(s, 1, <<"c", "a", "r", "e">>, char),
                                    1, <<"c", "h", "a", "i", "r">>, char),
                        1, <<"c", "h", "o", "r", "e">>, char)
       ELSE s

\* correctTechnicalTerms (lines 128-160) on the characters of the text.
correctTechnicalTermsChars(s) ==
  IF trim(s) = <<>> THEN s
  ELSE CapitalizeFirstChar(
         trim(CollapseSpaces(
           ContextGateChars(
             ApplyCorrectionsChars(trim(toLowerCaseChars(s)), 1)))))

Punctuation == {",", ".", "!", "?"}

\* .replace(/\s+([,.!?])/g, '$1') (line 174)
RECURSIVE RemoveSpaceBeforePunctuation(_)
RemoveSpaceBeforePunctuation(s) ==
  IF s = <<>> THEN s
  ELSE IF s[1] # " " THEN <<s[1]>> \o RemoveSpaceBeforePunctuation(Tail(s))
  ELSE LET inked == {i \in 1..Len(s) : s[i] # " "}
           next == IF inked = {} THEN Len(s) + 1
                   ELSE CHOOSE i \in inked : \A j \in inked : i <= j
       IN IF next <= Len(s) /\ s[next] \in Punctuation
            THEN RemoveSpaceBeforePunctuation(SubSeq(s, next, Len(s)))
            ELSE SubSeq(s, 1, next - 1)
                   \o RemoveSpaceBeforePunctuation(SubSeq(s, next, Len(s)))

\* .replace(/([,.!?])([^\s])/g, '$1 $2') (line 175); the scan goes on
\* behind the second character of a match.
RECURSIVE AddSpaceAfterPunctuation(_)
AddSpaceAfterPunctuation(s) ==
  IF Len(s) < 2 THEN s
  ELSE IF s[1] \in Punctuation /\ s[2] # " "
    THEN <<s[1], " ", s[2]>> \o AddSpaceAfterPunctuation(SubSeq(s, 3, Len(s)))
    ELSE <<s[1]>> \o AddSpaceAfterPunctuation(Tail(s))

\* Lines 178-181; the white space between the two words is one blank, since
\* correctTechnicalTerms has collapsed it and line 175 adds single blanks.
FixWordCombinations(s) ==
  LET data == <<"d", "a", "t", "a">>
      type == <<"t", "y", "p", "e">>
      structure == <<"s", "t", "r", "u", "c", "t", "u", "r", "e">>
      time == <<"t", "i", "m", "e">>
      space == <<"s", "p", "a", "c", "e">>
      complexity == <<"c", "o", "m", "p", "l", "e", "x", "i", "t", "y">>
      s1 == ReplaceFrom(s, 1, data \o <<" ">> \o type, data \o type)
      s2 == ReplaceFrom(s1, 1, data \o <<" ">> \o structure,
                               data \o <<" ">> \o structure)
      s3 == ReplaceFrom(s2, 1, time \o <<" ">> \o complexity,
                               time \o <<" ">> \o complexity)
  IN ReplaceFrom(s3, 1, space \o <<" ">> \o complexity,
                        space \o <<" ">> \o complexity)

\* postProcessTranscript (lines 165-185) on the characters of the text.
postProcessTranscriptChars(s) ==
  IF trim(s) = <<>> THEN s
  ELSE trim(FixWordCombinations(
              AddSpaceAfterPunctuation(
                RemoveSpaceBeforePunctuation(correctTechnicalTermsChars(s)))))

\* What a speaker may say: one to MaxPhrases of these, a blank between two.
Phrases ==
  { <<"n", "o", "d", "e">>,
    <<"d", "a", "t", "a", " ", "t", "y", "p", "e">>,
    <<"b", "i", "g", " ", "o">>,
    <<"o", " ", "o", "f", " ", "n">>,
    <<"c", " ", "s", "h", "a", "r", "p">>,
    <<"r", "e", "a", "c", "t">>,
    <<"c", "a", "r", "e">>,
    <<"c", "h", "a", "i", "r">>,
    <<"c", "a", "r">>,
    <<"c", "a", "r", "t">>,
    <<"s", "c", "a", "r">>,
    <<"e", "x", "p", "l", "a", "i", "n">>,
    <<"m", "y">> }

RECURSIVE SpokenTexts(_)
SpokenTexts(n) ==
  IF n = 1 THEN Phrases
  ELSE SpokenTexts(n - 1)
         \cup {t \o <<" ">> \o p : t \in SpokenTexts(n - 1), p \in Phrases}

\* ------------------------------------------------- recognition events
T_care == <<"explain", "care">>
T_char == <<"explain", "char">>
T_hash == <<"hash", "map">>

Alt(t, c) == [transcript |-> t, confidence |-> c]

\* Result slots the device may deliver; confidence is in hundredths.
Slots ==
  { [isFinal |-> FALSE, alts |-> <<Alt(T_care, 90)>>],
    [isFinal |-> TRUE,  alts |-> <<Alt(T_hash, 30), Alt(T_char, 90)>>],
    [isFinal |-> TRUE,  alts |-> <<Alt(T_hash, 10)>>] }

Events == UNION { [1..n -> Slots] : n \in 1..MaxSlots }

NoEvent == <<>>

\* Lines 139-152: the alternative with the highest confidence, starting from
\* the first one; an alternative with empty text keeps the text found so far.
RECURSIVE BestAlternative(_, _, _)
BestAlternative(alts, j, best) ==
  IF j > Len(alts) THEN best
  ELSE IF alts[j].confidence > best.confidence
    THEN BestAlternative(alts, j + 1,
           Alt(IF alts[j].transcript # <<>> THEN alts[j].transcript
                                            ELSE best.transcript,
               alts[j].confidence))
    ELSE BestAlternative(alts, j + 1, best)

CONFIDENCE_THRESHOLD == 20

\* Variant: the first alternative whatever the confidences.
FinalText_FirstOnly(result) == result.alts[1].transcript

\* Lines 137-171: the text committed for a final slot whose first
\* alternative is non-empty.
FinalText(result) ==
  LET first == result.alts[1]
      best == IF Len(result.alts) > 1
                THEN BestAlternative(result.alts, 1, first)
                ELSE first
  IN IF best.confidence > CONFIDENCE_THRESHOLD \/ Len(result.alts) = 1
       THEN best.transcript
       ELSE first.transcript

\* Lines 130-176: the loop over event.results[startIndex..]; acc holds the
\* final fragments found and the last interim text.
RECURSIVE ProcessSlots(_, _, _)
ProcessSlots(results, i, acc) ==
  IF i > Len(results) THEN acc
  ELSE LET result == results[i]
           first == result.alts[1].transcript
       IN IF first = <<>> THEN ProcessSlots(results, i + 1, acc)
          ELSE IF result.isFinal
            THEN ProcessSlots(results, i + 1,
                   [acc EXCEPT !.finals = Append(@, FinalText(result))])
            ELSE ProcessSlots(results, i + 1, [acc EXCEPT !.interim = first])

\* Lines 185-197: the transcript shown for the final text and interim text.
BuildTranscript(finalTranscript, interimTranscript) ==
  LET fullTranscript == finalTranscript \o interimTranscript
  IN IF fullTranscript = <<>> THEN <<>>
     ELSE IF interimTranscript # <<>> /\ finalTranscript = <<>>
       THEN postProcessTranscript(interimTranscript)
       ELSE postProcessTranscript(fullTranscript)

\* Variant: the interim text is kept as a fragment.
ReconcileEvent_CommitsInterim(mobile, parts0, cursor0, event) ==
  LET startIndex == IF mobile THEN cursor0 ELSE 0
      acc == ProcessSlots(event, startIndex + 1,
                          [finals |-> <<>>, interim |-> <<>>])
      found == IF acc.interim = <<>> THEN acc.finals
                                     ELSE Append(acc.finals, acc.interim)
      parts == IF mobile THEN parts0 \o found ELSE parts0
      fragments == IF mobile THEN parts ELSE acc.finals
  IN [parts |-> parts,
      cursor |-> IF mobile THEN Len(event) ELSE cursor0,
      fragments |-> fragments,
      transcript |-> BuildTranscript(Join(fragments), acc.interim)]

\* Lines 123-200: the fragment list, the index cursor, the final fragments
\* and the transcript after onresult, from the refs before it.
ReconcileEvent(mobile, parts0, cursor0, event) ==
  LET startIndex == IF mobile THEN cursor0 ELSE 0
      acc == ProcessSlots(event, startIndex + 1,
                          [finals |-> <<>>, interim |-> <<>>])
      parts == IF mobile THEN parts0 \o acc.finals ELSE parts0
      fragments == IF mobile THEN parts ELSE acc.finals
  IN [parts |-> parts,
      cursor |-> IF mobile THEN Len(event) ELSE cursor0,
      fragments |-> fragments,
      transcript |-> BuildTranscript(Join(fragments), acc.interim)]

\* The refs and the transcript right after onstart (lines 82-89).
SessionStart ==
  [parts |-> <<>>, cursor |-> 0, fragments |-> <<>>, transcript |-> <<>>]

\* Successive onresult calls of one session.
RECURSIVE ReconcileRun(_, _, _)
ReconcileRun(mobile, st, events) ==
  IF events = <<>> THEN st
  ELSE ReconcileRun(mobile,
         ReconcileEvent(mobile, st.parts, st.cursor, Head(events)),
         Tail(events))

\* Lines 95-100: what onend passes to onStop after a manual stop without a
\* cancel, as a list of zero or one texts.
EmittedAtStop(t) ==
  IF t # <<>> /\ postProcessTranscript(t) # <<>>
    THEN <<postProcessTranscript(t)>>
    ELSE <<>>

\* Interim slots with two different texts, and the final slots.
InterimSlots ==
  {s \in Slots : ~s.isFinal} \cup
  { [isFinal |-> FALSE, alts |-> <<Alt(T_hash, 50)>>] }

FinalSlots == {s \in Slots : s.isFinal}

InterimEvents == UNION { [1..n -> InterimSlots] : n \in 1..MaxSlots }

\* One or two events that carry only interim slots.
InterimRuns ==
  {<<e>> : e \in InterimEvents} \cup (InterimEvents \X InterimEvents)

FinalEvents == UNION { [1..n -> FinalSlots] : n \in 1..MaxSlots }

\* Two runs have the same shape when they differ at most in the texts.
SameShape(runA, runB) ==
  /\ Len(runA) = Len(runB)
  /\ \A k \in 1..Len(runA) : Len(runA[k]) = Len(runB[k])

\* ------------------------------------------------- recognition device
\* recognition.stop(): ends a started or starting session, else is ignored.
DeviceStop(d) == IF d \in {"starting", "listening"} THEN "stopping" ELSE d

\* -------------------------------------------- generateAnswerStream
MAX_RETRIES == 3
INITIAL_RETRY_DELAY_MS == 1000

\* What a failed attempt throws: the status of an ApiError ("undefined" for
\* an error without one) and its message (NoMessage for a thrown value with
\* no message property).
NoMessage == "<no message property>"
Statuses == {"429", "503", "500", "undefined"}
Messages == {"boom", "", NoMessage}
Failures == [status : Statuses, message : Messages]
NoFailure == [status |-> "undefined", message |-> NoMessage]

\* Chunks of a response stream; a chunk may carry no text.
Chunks == {"a", "b", ""}

NoError == "<not rejected>"
MSG_OVERLOADED ==
  "Gemini is temporarily overloaded. Please wait a moment and try again."
MSG_RATE_LIMIT ==
  "Gemini rate limit reached. Please slow down and try again shortly."
MSG_FALLBACK == "Failed to generate answer from Gemini API."
MSG_EXHAUSTED ==
  "Failed to generate answer from Gemini API after multiple attempts."
MSG_NO_KEY == "Gemini API key not configured. Please provide a valid key."

\* Variant: every status of a failed request is retried.
isRetryable_AnyStatus(status) == status # "undefined"

\* Line 167
isRetryable(status) == status = "503" \/ status = "429"

\* Variant: the delay does not grow.
RetryDelay_Constant(n) == INITIAL_RETRY_DELAY_MS

\* Lines 169-170
RetryDelay(n) == INITIAL_RETRY_DELAY_MS * 2 ^ (n - 1)

\* Variant: the status is not looked at when the error is built.
TerminalMessage_Generic(failure) ==
  IF failure.message \in {NoMessage, ""} THEN MSG_FALLBACK ELSE failure.message

\* Lines 162-165 and 180-194: the message of the error thrown for a failure
\* that is not retried.
TerminalMessage(failure) ==
  LET message == IF failure.message = NoMessage THEN "Unknown error"
                                                ELSE failure.message
  IN IF failure.status = "503" THEN MSG_OVERLOADED
     ELSE IF failure.status = "429" THEN MSG_RATE_LIMIT
     ELSE IF message = "" THEN MSG_FALLBACK
     ELSE message

\* Variant: the last permitted attempt is retried as well.
RetriesAfter_Inclusive(failure, n) ==
  isRetryable(failure.status) /\ n <= MAX_RETRIES

\* Variant: a retryable failure is retried whatever the attempt counter.
RetriesAfter_Unbounded(failure, n) == isRetryable(failure.status)

\* Lines 156-176: whether the catch block sleeps and retries, given the
\* attempt counter after its increment.
RetriesAfter(failure, n) == isRetryable(failure.status) /\ n < MAX_RETRIES

\* ------------------------------------------------ App: chat messages
\* A message content is the list of the pieces appended to it.
ModelShell(id) == [id |-> id, role |-> "model", content |-> <<>>, isFinal |-> FALSE]

StoredQuestion == [id |-> 1, role |-> "user", content |-> <<"q">>, isFinal |-> TRUE]

\* Date.now() when a message is created, later than the stored message; two
\* messages may be created at the same reading.
NowReadings == {2, 3}

\* persistSessionMessages (lines 55-72) with the activeSessionId of its
\* closure; titles and timestamps are left out.
persistSessionMessages(ss, sessionId, messages) ==
  IF sessionId = 0 THEN ss
  ELSE [i \in 1..Len(ss) |->
          IF ss[i].id = sessionId THEN [ss[i] EXCEPT !.messages = messages]
                                  ELSE ss[i]]

\* The updater of onChunk (lines 121-127).
AppendToMessage(messages, id, chunk) ==
  [i \in 1..Len(messages) |->
     IF messages[i].id = id
       THEN [messages[i] EXCEPT !.content = Append(@, chunk)]
       ELSE messages[i]]

\* The updater of the catch block (lines 137-146).
ReplaceContent(messages, id, text) ==
  [i \in 1..Len(messages) |->
     IF messages[i].id = id
       THEN [messages[i] EXCEPT !.content = <<text>>]
       ELSE messages[i]]

\* The updater of the finally block (lines 149-151).
Finalize(messages, id) ==
  [i \in 1..Len(messages) |->
     IF messages[i].id = id
       THEN [messages[i] EXCEPT !.isFinal = TRUE]
       ELSE messages[i]]

\* An item of localStorage: none, a text JSON.parse throws on, the JSON of a
\* list of sessions, or the JSON of a list whose first element has an id and
\* no messages.
NoItem == [kind |-> "missing", value |-> <<>>]

\* Variant: the save effect without its test of isHydrated.
SaveEffect_Unguarded(hydrated, stored, ss) == [kind |-> "list", value |-> ss]

\* The save effect (lines 274-281) of a render in which isHydrated is
\* `hydrated` and sessions is ss: the item under STORAGE_KEY afterwards.
SaveEffect(hydrated, stored, ss) ==
  IF hydrated THEN [kind |-> "list", value |-> ss] ELSE stored

\* The save effect after the render of a handler's updates.
SaveSessions == localStorage' = SaveEffect(isHydrated, localStorage, sessions')

\* The App is on screen and takes user events.
AppReady == isHydrated /\ ~appCrashed

\* onChunk as handleGetAnswer passes it (lines 120-127), through
\* updateMessages (lines 74-82); a call made without the App has no message
\* to update.
AppOnChunk(chunk) ==
  /\ LET updated == AppendToMessage(chatMessages, modelMessageId, chunk)
     IN IF aPc = "awaiting"
          THEN /\ chatMessages' = updated
               /\ sessions' = persistSessionMessages(sessions, aSession, updated)
               /\ SaveSessions
          ELSE UNCHANGED <<chatMessages, sessions, localStorage>>
  /\ UNCHANGED <<provider, optionsApiKey, aPc, modelMessageId, aSession,
                 activeSessionId, isGenerating, isHydrated, appCrashed>>

\* The message handleNewTranscript builds (lines 89-94).
UserMessage(id, text) == [id |-> id, role |-> "user", content |-> text, isFinal |-> TRUE]

\* handleNewTranscript (lines 85-100) as the hook holds it: the recognition
\* effect runs once (hook line 211), so options.onStop is the callback of
\* the App's first render, whose persistSessionMessages has the empty
\* activeSessionId of line 43 in its closure and returns at line 57. The
\* sessions are left as they are and no save effect follows.
handleNewTranscript(now, text) ==
  /\ LET updated == IF text # <<>> THEN Append(chatMessages, UserMessage(now, text))
                                    ELSE chatMessages
     IN /\ chatMessages' = updated
        /\ sessions' = persistSessionMessages(sessions, 0, updated)
  /\ SaveSessions
  /\ UNCHANGED <<provider, optionsApiKey, aPc, modelMessageId, aSession,
                 activeSessionId, isGenerating, isHydrated, appCrashed>>

\* options.onStop(finalTranscript) (hook line 99); a hook that is driven
\* without the App has a callback that only takes the text.
AppOnStop(text) ==
  IF AppReady THEN \E now \in NowReadings : handleNewTranscript(now, text)
              ELSE UNCHANGED appVars

\* The updater of toggleRecording (lines 171-177).
RemoveLastUserMessage(messages) ==
  IF messages # <<>> /\ messages[Len(messages)].role = "user"
    THEN SubSeq(messages, 1, Len(messages) - 1)
    ELSE messages

\* generateAnswerStream up to the loop (lines 107-134); getGeminiClient
\* (lines 14-22) throws when there is neither a caller key nor a default one.
generateAnswerStream(apiKey) ==
  /\ gPc = "idle"
  /\ IF apiKey \/ defaultApiKey
       THEN /\ gPc' = "loop"
            /\ gError' = gError
       ELSE /\ gPc' = "rejected"
            /\ gError' = MSG_NO_KEY
  /\ attempt' = 0
  /\ UNCHANGED <<gRequests, gStatuses, gWaits, gClock, gReqTimes, gProduced,
                 gDelivered, gPrior, gLastErr, defaultApiKey>>
  /\ UNCHANGED <<speechVars, appVars, probe>>

\* The loop head and the request of one attempt (lines 136-147); line 198
\* follows the loop.
GeminiRequest ==
  /\ gPc = "loop"
  /\ IF attempt < MAX_RETRIES
       THEN /\ gPc' = "streaming"
            /\ gRequests' = gRequests + 1
            /\ gReqTimes' = Append(gReqTimes, gClock)
            /\ gProduced' = <<>>
            /\ gPrior' = gDelivered
            /\ gError' = gError
       ELSE /\ gPc' = "rejected"
            /\ gError' = MSG_EXHAUSTED
            /\ UNCHANGED <<gRequests, gReqTimes, gProduced, gPrior>>
  /\ UNCHANGED <<attempt, gStatuses, gWaits, gClock, gDelivered, gLastErr,
                 defaultApiKey>>
  /\ UNCHANGED <<speechVars, appVars, probe>>

\* Variant: the chunk is put in front of what was delivered.
Deliver_Prepend(delivered, chunk) ==
  IF chunk # "" THEN <<chunk>> \o delivered ELSE delivered

\* Lines 150-152: onChunk is called for a chunk that carries text.
Deliver(delivered, chunk) ==
  IF chunk # "" THEN Append(delivered, chunk) ELSE delivered

\* One iteration of the for-await loop (lines 149-153).
GeminiChunk(chunk) ==
  /\ gPc = "streaming"
  /\ Len(gProduced) < MaxChunks
  /\ gProduced' = Append(gProduced, chunk)
  /\ gDelivered' = Deliver(gDelivered, chunk)
  /\ IF chunk # "" THEN AppOnChunk(chunk) ELSE UNCHANGED appVars
  /\ UNCHANGED <<gPc, attempt, gRequests, gStatuses, gWaits, gClock,
                 gReqTimes, gPrior, gError, gLastErr, defaultApiKey>>
  /\ UNCHANGED <<speechVars, probe>>

\* The stream ends and the call returns (line 154).
GeminiReturn ==
  /\ gPc = "streaming"
  /\ gPc' = "resolved"
  /\ UNCHANGED <<attempt, gRequests, gStatuses, gWaits, gClock, gReqTimes,
                 gProduced, gDelivered, gPrior, gError, gLastErr,
                 defaultApiKey>>
  /\ UNCHANGED <<speechVars, appVars, probe>>

\* Variant: a retry takes back what the failed attempt delivered.
GeminiCatch_Retract(failure) ==
  /\ gPc = "streaming"
  /\ attempt' = attempt + 1
  /\ gStatuses' = Append(gStatuses, failure.status)
  /\ gLastErr' = failure
  /\ IF RetriesAfter(failure, attempt + 1)
       THEN /\ gPc' = "sleeping"
            /\ gError' = gError
            /\ gDelivered' = gPrior
       ELSE /\ gPc' = "rejected"
            /\ gError' = TerminalMessage(failure)
            /\ gDelivered' = gDelivered
  /\ UNCHANGED <<gRequests, gWaits, gClock, gReqTimes, gProduced, gPrior,
                 defaultApiKey>>
  /\ UNCHANGED <<speechVars, appVars, probe>>

\* The request or the stream throws and the catch block runs up to its
\* sleep or its throw (lines 155-195).
GeminiCatch(failure) ==
  /\ gPc = "streaming"
  /\ attempt' = attempt + 1
  /\ gStatuses' = Append(gStatuses, failure.status)
  /\ gLastErr' = failure
  /\ IF RetriesAfter(failure, attempt + 1)
       THEN /\ gPc' = "sleeping"
            /\ gError' = gError
       ELSE /\ gPc' = "rejected"
            /\ gError' = TerminalMessage(failure)
  /\ UNCHANGED <<gRequests, gWaits, gClock, gReqTimes, gProduced, gDelivered,
                 gPrior, defaultApiKey>>
  /\ UNCHANGED <<speechVars, appVars, probe>>

\* Variant: the promise of sleep is never resolved, so the call stays at
\* its await.
GeminiWake_NeverResolves ==
  /\ gPc = "sleeping"
  /\ UNCHANGED vars

\* await sleep(delay) completes and the loop continues (lines 174-175).
GeminiWake ==
  /\ gPc = "sleeping"
  /\ gPc' = "loop"
  /\ gWaits' = Append(gWaits, RetryDelay(attempt))
  /\ gClock' = gClock + RetryDelay(attempt)
  /\ UNCHANGED <<attempt, gRequests, gStatuses, gReqTimes, gProduced,
                 gDelivered, gPrior, gError, gLastErr, defaultApiKey>>
  /\ UNCHANGED <<speechVars, appVars, probe>>

\* ------------------------------------------------------- hook handlers
\* A session runs from its start request to its onend.
SessionActive == device # "idle"

\* startRecording (lines 213-221); recognition.start() throws, and the throw
\* is caught, when the device is not idle.
startRecordingCall ==
  /\ IF ~isRecordingRef /\ device = "idle"
       THEN /\ device' = "starting"
            /\ onStopLog' = <<>>
            /\ hStop' = FALSE
            /\ hCancel' = FALSE
            /\ hError' = FALSE
       ELSE UNCHANGED <<device, onStopLog, hStop, hCancel, hError>>
  /\ lastEv' = NoEvent
  /\ UNCHANGED <<isRecording, isRecordingRef, transcript, rEmpty,
                 transcriptRef, skipOnStopRef, isManualStopRef,
                 lastProcessedIndexRef, finalTranscriptPartsRef, isMobileRef,
                 hCommitted>>

\* startRecording called on the hook alone.
startRecording == startRecordingCall /\ UNCHANGED <<geminiVars, appVars, probe>>

\* Variant: onstart without the reset of the transcript ref and of the
\* committed fragments.
onstart_KeepsText ==
  /\ device = "starting"
  /\ device' = "listening"
  /\ isRecording' = TRUE
  /\ transcript' = <<>>
  /\ isManualStopRef' = FALSE
  /\ lastProcessedIndexRef' = 0
  /\ hCommitted' = <<>>
  /\ lastEv' = NoEvent
  /\ UNCHANGED <<isRecordingRef, rEmpty, skipOnStopRef, isMobileRef,
                 onStopLog, hStop, hCancel, transcriptRef,
                 finalTranscriptPartsRef>>
  /\ UNCHANGED hError
  /\ UNCHANGED <<geminiVars, appVars, probe>>

\* recognition.onstart (lines 82-89)
onstart ==
  /\ device = "starting"
  /\ device' = "listening"
  /\ isRecording' = TRUE
  /\ transcript' = <<>>
  /\ transcriptRef' = <<>>
  /\ isManualStopRef' = FALSE
  /\ lastProcessedIndexRef' = 0
  /\ finalTranscriptPartsRef' = <<>>
  /\ hCommitted' = <<>>
  /\ lastEv' = NoEvent
  /\ UNCHANGED <<isRecordingRef, rEmpty, skipOnStopRef, isMobileRef,
                 onStopLog, hStop, hCancel>>
  /\ UNCHANGED hError
  /\ UNCHANGED <<geminiVars, appVars, probe>>

\* The guard of line 95, with options.onStop supplied.
ShouldEmit == ~skipOnStopRef /\ isManualStopRef /\ transcriptRef # <<>>

\* recognition.onend (lines 91-109); the device also ends a session by itself
\* (silence, device decision) while it is listening.
onend ==
  /\ device \in {"listening", "stopping"}
  /\ device' = "idle"
  /\ isRecording' = FALSE
  /\ onStopLog' = IF ShouldEmit /\ postProcessTranscript(transcriptRef) # <<>>
                    THEN Append(onStopLog, postProcessTranscript(transcriptRef))
                    ELSE onStopLog
  /\ skipOnStopRef' = FALSE
  /\ isManualStopRef' = FALSE
  /\ transcript' = <<>>
  /\ lastProcessedIndexRef' = 0
  /\ finalTranscriptPartsRef' = <<>>
  /\ hCommitted' = <<>>
  /\ lastEv' = NoEvent
  /\ UNCHANGED <<isRecordingRef, rEmpty, transcriptRef, isMobileRef,
                 hStop, hCancel>>
  /\ UNCHANGED hError
  /\ IF ShouldEmit /\ postProcessTranscript(transcriptRef) # <<>>
       THEN AppOnStop(postProcessTranscript(transcriptRef))
       ELSE UNCHANGED appVars
  /\ UNCHANGED <<geminiVars, probe>>

\* recognition.onerror (lines 111-120): logs only; the device then ends the
\* session, so its onend is pending.
onerror ==
  /\ device \in {"starting", "listening"}
  /\ device' = "stopping"
  /\ lastEv' = NoEvent
  /\ UNCHANGED <<isRecording, isRecordingRef, transcript, rEmpty,
                 transcriptRef, skipOnStopRef, isManualStopRef,
                 lastProcessedIndexRef, finalTranscriptPartsRef, isMobileRef,
                 onStopLog, hStop, hCancel, hCommitted>>
  /\ hError' = TRUE
  /\ UNCHANGED <<geminiVars, appVars, probe>>

\* recognition.onresult (lines 122-201); results may still arrive after
\* stop() was requested, until onend.
onresult(event) ==
  /\ device \in {"listening", "stopping"}
  /\ isRecording
  /\ LET after == ReconcileEvent(isMobileRef, finalTranscriptPartsRef,
                                 lastProcessedIndexRef, event)
     IN /\ Len(after.parts) <= MaxParts
        /\ finalTranscriptPartsRef' = after.parts
        /\ lastProcessedIndexRef' = after.cursor
        /\ transcript' = after.transcript
        /\ transcriptRef' = after.transcript
        /\ hCommitted' = after.fragments
  /\ lastEv' = event
  /\ UNCHANGED <<device, isRecording, isRecordingRef, rEmpty,
                 skipOnStopRef, isManualStopRef, isMobileRef, onStopLog,
                 hStop, hCancel>>
  /\ UNCHANGED hError
  /\ UNCHANGED <<geminiVars, appVars, probe>>

\* stopRecording (lines 223-228)
stopRecordingCall ==
  /\ IF isRecordingRef
       THEN /\ isManualStopRef' = TRUE
            /\ device' = DeviceStop(device)
            /\ hStop' = (hStop \/ SessionActive)
       ELSE UNCHANGED <<isManualStopRef, device, hStop>>
  /\ lastEv' = NoEvent
  /\ UNCHANGED <<isRecording, isRecordingRef, transcript, rEmpty,
                 transcriptRef, skipOnStopRef, lastProcessedIndexRef,
                 finalTranscriptPartsRef, isMobileRef, onStopLog, hCancel,
                 hCommitted>>
  /\ UNCHANGED hError

\* stopRecording called on the hook alone.
stopRecording == stopRecordingCall /\ UNCHANGED <<geminiVars, appVars, probe>>

\* Variant: cancelRecording without the skip flag.
cancelRecording_NoSkip ==
  /\ isManualStopRef' = isManualStopRef
  /\ device' = IF isRecordingRef THEN DeviceStop(device) ELSE device
  /\ transcript' = <<>>
  /\ transcriptRef' = <<>>
  /\ lastProcessedIndexRef' = 0
  /\ finalTranscriptPartsRef' = <<>>
  /\ hCancel' = (hCancel \/ SessionActive)
  /\ hCommitted' = <<>>
  /\ lastEv' = NoEvent
  /\ UNCHANGED <<isRecording, isRecordingRef, rEmpty, isMobileRef,
                 onStopLog, hStop, skipOnStopRef>>
  /\ UNCHANGED hError
  /\ UNCHANGED <<geminiVars, appVars, probe>>

\* cancelRecording (lines 230-240)
cancelRecording ==
  /\ skipOnStopRef' = TRUE
  /\ isManualStopRef' = FALSE
  /\ device' = IF isRecordingRef THEN DeviceStop(device) ELSE device
  /\ transcript' = <<>>
  /\ transcriptRef' = <<>>
  /\ lastProcessedIndexRef' = 0
  /\ finalTranscriptPartsRef' = <<>>
  /\ hCancel' = (hCancel \/ SessionActive)
  /\ hCommitted' = <<>>
  /\ lastEv' = NoEvent
  /\ UNCHANGED <<isRecording, isRecordingRef, rEmpty, isMobileRef,
                 onStopLog, hStop>>
  /\ UNCHANGED hError
  /\ UNCHANGED <<geminiVars, appVars, probe>>

\* A committed render and its effects (lines 39-48): each effect runs only
\* when its dependency changed since the previous render.  transcriptRef
\* differs from transcript only while transcript is '' (RefLagsOnlyWhenCleared),
\* so the transcript effect changes the ref only when the rendered transcript
\* goes from non-empty to '': rEmpty is all of the previous render it needs.
render ==
  /\ isRecording # isRecordingRef \/ (transcript = <<>>) # rEmpty
  /\ isRecordingRef' = isRecording
  /\ transcriptRef' = IF (transcript = <<>>) # rEmpty THEN transcript
                                                      ELSE transcriptRef
  /\ rEmpty' = (transcript = <<>>)
  /\ UNCHANGED <<device, isRecording, transcript, skipOnStopRef,
                 isManualStopRef, lastProcessedIndexRef,
                 finalTranscriptPartsRef, isMobileRef, onStopLog, hStop,
                 hCancel, hCommitted, lastEv>>
  /\ UNCHANGED hError
  /\ UNCHANGED <<geminiVars, appVars, probe>>

\* checkMobile on a window resize (lines 27-36): the platform class follows
\* touch support and the viewport width.  The environment is taken to change
\* the platform class only between sessions.
checkMobile ==
  /\ device = "idle"
  /\ isMobileRef' = ~isMobileRef
  /\ lastEv' = NoEvent
  /\ UNCHANGED <<device, isRecording, isRecordingRef, transcript, rEmpty,
                 transcriptRef, skipOnStopRef, isManualStopRef,
                 lastProcessedIndexRef, finalTranscriptPartsRef, onStopLog,
                 hStop, hCancel, hCommitted>>
  /\ UNCHANGED hError
  /\ UNCHANGED <<geminiVars, appVars, probe>>

\* The hook after its first render and mount effects, on either platform
\* class, with no answer generation in progress.
InitSpeech ==
  /\ device = "idle"
  /\ isRecording = FALSE
  /\ isRecordingRef = FALSE
  /\ transcript = <<>>
  /\ rEmpty = TRUE
  /\ transcriptRef = <<>>
  /\ skipOnStopRef = FALSE
  /\ isManualStopRef = FALSE
  /\ lastProcessedIndexRef = 0
  /\ finalTranscriptPartsRef = <<>>
  /\ isMobileRef \in BOOLEAN
  /\ onStopLog = <<>>
  /\ hStop = FALSE
  /\ hCancel = FALSE
  /\ hError = FALSE
  /\ hCommitted = <<>>
  /\ lastEv = NoEvent
  /\ gPc = "idle"
  /\ attempt = 0
  /\ gRequests = 0
  /\ gStatuses = <<>>
  /\ gWaits = <<>>
  /\ gClock = 0
  /\ gReqTimes = <<>>
  /\ gProduced = <<>>
  /\ gDelivered = <<>>
  /\ gPrior = <<>>
  /\ gError = NoError
  /\ gLastErr = NoFailure
  /\ defaultApiKey = TRUE
  /\ provider = "default"
  /\ optionsApiKey = FALSE
  /\ aPc = "idle"
  /\ modelMessageId = 0
  /\ aSession = 0
  /\ chatMessages = <<>>
  /\ sessions = <<>>
  /\ activeSessionId = 0
  /\ isGenerating = FALSE
  /\ isHydrated = FALSE
  /\ localStorage = NoItem
  /\ appCrashed = FALSE
  /\ probe = NoProbe

\* The only handler that writes transcript without transcriptRef is onend.
RefLagsOnlyWhenCleared == transcriptRef # transcript => transcript = <<>>

NextSpeech ==
  \/ startRecording
  \/ onstart
  \/ onend
  \/ onerror
  \/ \E event \in Events : onresult(event)
  \/ stopRecording
  \/ cancelRecording
  \/ render
  \/ checkMobile

SpecSpeech == InitSpeech /\ [][NextSpeech]_vars

\* Two runs of one session, each a run of interim-only events followed by
\* the same all-final event and a manual stop; the first run and the final
\* event are drawn here, the second run by Reconcile.
InitReconcile ==
  /\ device = "idle"
  /\ isRecording = FALSE
  /\ isRecordingRef = FALSE
  /\ transcript = <<>>
  /\ rEmpty = TRUE
  /\ transcriptRef = <<>>
  /\ skipOnStopRef = FALSE
  /\ isManualStopRef = FALSE
  /\ lastProcessedIndexRef = 0
  /\ finalTranscriptPartsRef = <<>>
  /\ isMobileRef = FALSE
  /\ onStopLog = <<>>
  /\ hStop = FALSE
  /\ hCancel = FALSE
  /\ hError = FALSE
  /\ hCommitted = <<>>
  /\ lastEv = NoEvent
  /\ gPc = "idle"
  /\ attempt = 0
  /\ gRequests = 0
  /\ gStatuses = <<>>
  /\ gWaits = <<>>
  /\ gClock = 0
  /\ gReqTimes = <<>>
  /\ gProduced = <<>>
  /\ gDelivered = <<>>
  /\ gPrior = <<>>
  /\ gError = NoError
  /\ gLastErr = NoFailure
  /\ defaultApiKey = TRUE
  /\ provider = "default"
  /\ optionsApiKey = FALSE
  /\ aPc = "idle"
  /\ modelMessageId = 0
  /\ aSession = 0
  /\ chatMessages = <<>>
  /\ sessions = <<>>
  /\ activeSessionId = 0
  /\ isGenerating = FALSE
  /\ isHydrated = FALSE
  /\ localStorage = NoItem
  /\ appCrashed = FALSE
  /\ probe \in [phase : {"input"}, mobile : BOOLEAN, runA : InterimRuns,
                runB : {<<>>}, final : FinalEvents,
                outA : {<<>>}, outB : {<<>>}]

\* Both runs are reconciled on the same platform class and stopped manually.
Reconcile(runB) ==
  /\ probe # NoProbe
  /\ probe.phase = "input"
  /\ SameShape(probe.runA, runB)
  /\ probe' =
       [probe EXCEPT
          !.phase = "done",
          !.runB = runB,
          !.outA = EmittedAtStop(
                     ReconcileRun(probe.mobile, SessionStart,
                                  Append(probe.runA, probe.final)).transcript),
          !.outB = EmittedAtStop(
                     ReconcileRun(probe.mobile, SessionStart,
                                  Append(runB, probe.final)).transcript)]
  /\ UNCHANGED <<speechVars, geminiVars, appVars>>

NextReconcile == \E runB \in InterimRuns : Reconcile(runB)

SpecReconcile == InitReconcile /\ [][NextReconcile]_vars

\* ------------------------------------------- corrections of one text
\* A text to be corrected, before correctTechnicalTerms has been applied.
InitCorrect ==
  /\ device = "idle"
  /\ isRecording = FALSE
  /\ isRecordingRef = FALSE
  /\ transcript = <<>>
  /\ rEmpty = TRUE
  /\ transcriptRef = <<>>
  /\ skipOnStopRef = FALSE
  /\ isManualStopRef = FALSE
  /\ lastProcessedIndexRef = 0
  /\ finalTranscriptPartsRef = <<>>
  /\ isMobileRef = FALSE
  /\ onStopLog = <<>>
  /\ hStop = FALSE
  /\ hCancel = FALSE
  /\ hError = FALSE
  /\ hCommitted = <<>>
  /\ lastEv = NoEvent
  /\ gPc = "idle"
  /\ attempt = 0
  /\ gRequests = 0
  /\ gStatuses = <<>>
  /\ gWaits = <<>>
  /\ gClock = 0
  /\ gReqTimes = <<>>
  /\ gProduced = <<>>
  /\ gDelivered = <<>>
  /\ gPrior = <<>>
  /\ gError = NoError
  /\ gLastErr = NoFailure
  /\ defaultApiKey = TRUE
  /\ provider = "default"
  /\ optionsApiKey = FALSE
  /\ aPc = "idle"
  /\ modelMessageId = 0
  /\ aSession = 0
  /\ chatMessages = <<>>
  /\ sessions = <<>>
  /\ activeSessionId = 0
  /\ isGenerating = FALSE
  /\ isHydrated = FALSE
  /\ localStorage = NoItem
  /\ appCrashed = FALSE
  /\ probe \in [phase : {"input"}, text : SpokenTexts(MaxPhrases),
                once : {<<>>}, twice : {<<>>},
                shown : {<<>>}, emitted : {<<>>}]

\* correctTechnicalTerms is applied to the text, and then to its own output;
\* postProcessTranscript is applied as onresult does for the display (lines
\* 188-196) and then as onend does to the displayed text (line 97).
Correct ==
  /\ probe # NoProbe
  /\ probe.phase = "input"
  /\ probe' =
       [probe EXCEPT
          !.phase = "done",
          !.once = correctTechnicalTermsChars(probe.text),
          !.twice = correctTechnicalTermsChars(
                      correctTechnicalTermsChars(probe.text)),
          !.shown = postProcessTranscriptChars(probe.text),
          !.emitted = postProcessTranscriptChars(
                        trim(postProcessTranscriptChars(probe.text)))]
  /\ UNCHANGED <<speechVars, geminiVars, appVars>>

NextCorrect == Correct

SpecCorrect == InitCorrect /\ [][NextCorrect]_vars

\* ------------------------------------------------ text of one slot
\* recognition.maxAlternatives (line 65)
MAX_ALTERNATIVES == 3

\* The slots a device may deliver: final or not, one to MAX_ALTERNATIVES
\* alternatives, confidences below, at and above the threshold.
AltSlots ==
  LET Alternatives == {Alt(t, c) : t \in {T_care, T_hash}, c \in {10, 20, 90}}
  IN [isFinal : BOOLEAN,
      alts : UNION { [1..n -> Alternatives] : n \in 1..MAX_ALTERNATIVES }]

\* One slot, before the loop of onresult has read it.
InitSlot ==
  /\ device = "idle"
  /\ isRecording = FALSE
  /\ isRecordingRef = FALSE
  /\ transcript = <<>>
  /\ rEmpty = TRUE
  /\ transcriptRef = <<>>
  /\ skipOnStopRef = FALSE
  /\ isManualStopRef = FALSE
  /\ lastProcessedIndexRef = 0
  /\ finalTranscriptPartsRef = <<>>
  /\ isMobileRef = FALSE
  /\ onStopLog = <<>>
  /\ hStop = FALSE
  /\ hCancel = FALSE
  /\ hError = FALSE
  /\ hCommitted = <<>>
  /\ lastEv = NoEvent
  /\ gPc = "idle"
  /\ attempt = 0
  /\ gRequests = 0
  /\ gStatuses = <<>>
  /\ gWaits = <<>>
  /\ gClock = 0
  /\ gReqTimes = <<>>
  /\ gProduced = <<>>
  /\ gDelivered = <<>>
  /\ gPrior = <<>>
  /\ gError = NoError
  /\ gLastErr = NoFailure
  /\ defaultApiKey = TRUE
  /\ provider = "default"
  /\ optionsApiKey = FALSE
  /\ aPc = "idle"
  /\ modelMessageId = 0
  /\ aSession = 0
  /\ chatMessages = <<>>
  /\ sessions = <<>>
  /\ activeSessionId = 0
  /\ isGenerating = FALSE
  /\ isHydrated = FALSE
  /\ localStorage = NoItem
  /\ appCrashed = FALSE
  /\ probe \in [phase : {"input"}, slot : AltSlots, taken : {<<>>}]

\* The loop of onresult (lines 130-176) over an event with this one slot:
\* what it adds to the final text, or what it leaves as interim text.
ReadSlot ==
  /\ probe # NoProbe
  /\ probe.phase = "input"
  /\ LET acc == ProcessSlots(<<probe.slot>>, 1,
                             [finals |-> <<>>, interim |-> <<>>])
     IN probe' = [probe EXCEPT !.phase = "done",
                               !.taken = IF probe.slot.isFinal
                                           THEN Join(acc.finals)
                                           ELSE acc.interim]
  /\ UNCHANGED <<speechVars, geminiVars, appVars>>

NextSlot == ReadSlot

SpecSlot == InitSlot /\ [][NextSlot]_vars

\* The module before any generateAnswerStream call, with or without an
\* environment key; the recognition hook is idle.
InitGemini ==
  /\ device = "idle"
  /\ isRecording = FALSE
  /\ isRecordingRef = FALSE
  /\ transcript = <<>>
  /\ rEmpty = TRUE
  /\ transcriptRef = <<>>
  /\ skipOnStopRef = FALSE
  /\ isManualStopRef = FALSE
  /\ lastProcessedIndexRef = 0
  /\ finalTranscriptPartsRef = <<>>
  /\ isMobileRef = FALSE
  /\ onStopLog = <<>>
  /\ hStop = FALSE
  /\ hCancel = FALSE
  /\ hError = FALSE
  /\ hCommitted = <<>>
  /\ lastEv = NoEvent
  /\ gPc = "idle"
  /\ attempt = 0
  /\ gRequests = 0
  /\ gStatuses = <<>>
  /\ gWaits = <<>>
  /\ gClock = 0
  /\ gReqTimes = <<>>
  /\ gProduced = <<>>
  /\ gDelivered = <<>>
  /\ gPrior = <<>>
  /\ gError = NoError
  /\ gLastErr = NoFailure
  /\ defaultApiKey \in BOOLEAN
  /\ provider = "default"
  /\ optionsApiKey = FALSE
  /\ aPc = "idle"
  /\ modelMessageId = 0
  /\ aSession = 0
  /\ chatMessages = <<>>
  /\ sessions = <<>>
  /\ activeSessionId = 0
  /\ isGenerating = FALSE
  /\ isHydrated = FALSE
  /\ localStorage = NoItem
  /\ appCrashed = FALSE
  /\ probe = NoProbe

NextGemini ==
  \/ \E apiKey \in BOOLEAN : generateAnswerStream(apiKey)
  \/ GeminiRequest
  \/ \E chunk \in Chunks : GeminiChunk(chunk)
  \/ GeminiReturn
  \/ \E failure \in Failures : GeminiCatch(failure)
  \/ GeminiWake

SpecGemini == InitGemini /\ [][NextGemini]_vars

\* What the environment of one call guarantees: the continuation of the
\* async function is run (the loop head issues its request), every attempt
\* ends, by the end of the stream or by a throw, and every timer of
\* sleep (line 28) fires.
GeminiFairness ==
  /\ WF_vars(GeminiRequest)
  /\ WF_vars(GeminiReturn \/ \E failure \in Failures : GeminiCatch(failure))
  /\ WF_vars(GeminiWake)

SpecGeminiLive == InitGemini /\ [][NextGemini]_vars /\ GeminiFairness

\* ------------------------------------- generateAnswerWithProvider
Providers == {"default", "gemini", "openai", "claude"}

MSG_NEED_GEMINI_KEY == "Please provide a Gemini API key."
MSG_NEED_OPENAI_KEY == "Please provide an OpenAI API key."
MSG_NEED_CLAUDE_KEY == "Please provide an Anthropic (Claude) API key."
MSG_OPENAI_ERROR == "OpenAI error: <body>"
MSG_CLAUDE_ERROR == "Claude error: <body>"
MSG_OPENAI_EMPTY == "OpenAI returned an empty response."
MSG_CLAUDE_EMPTY == "Claude returned an empty response."
MSG_FETCH_FAILED == "Failed to fetch"

\* What fetch gives back: a response with a status and a content field, or a
\* network failure.
HttpResponses ==
  { [kind |-> "response", status |-> "200", content |-> "c"],
    [kind |-> "response", status |-> "200", content |-> ""],
    [kind |-> "response", status |-> "429", content |-> ""],
    [kind |-> "response", status |-> "503", content |-> ""],
    [kind |-> "response", status |-> "500", content |-> "c"],
    [kind |-> "network", status |-> "undefined", content |-> ""] }

\* A throw before any request (lines 30-32, 50-52, 90-92).
ProviderReject(message) ==
  /\ gPc' = "rejected"
  /\ gError' = message
  /\ UNCHANGED <<attempt, gRequests, gStatuses, gWaits, gClock, gReqTimes,
                 gProduced, gDelivered, gPrior, gLastErr, defaultApiKey>>
  /\ UNCHANGED <<speechVars, appVars, probe>>

\* The fetch of a chat-completion backend (lines 54-69, 94-113).
HttpFetch ==
  /\ gPc' = "fetching"
  /\ gRequests' = gRequests + 1
  /\ gReqTimes' = Append(gReqTimes, gClock)
  /\ UNCHANGED <<attempt, gStatuses, gWaits, gClock, gProduced, gDelivered,
                 gPrior, gError, gLastErr, defaultApiKey>>
  /\ UNCHANGED <<speechVars, appVars, probe>>

\* Variant: the request is sent without a key.
generateOpenAIAnswer_NoKeyCheck == HttpFetch

\* generateOpenAIAnswer up to its fetch (lines 45-69).
generateOpenAIAnswer ==
  IF ~optionsApiKey THEN ProviderReject(MSG_NEED_OPENAI_KEY) ELSE HttpFetch

\* generateClaudeAnswer up to its fetch (lines 85-113).
generateClaudeAnswer ==
  IF ~optionsApiKey THEN ProviderReject(MSG_NEED_CLAUDE_KEY) ELSE HttpFetch

\* Variant: provider gemini without a caller key uses the default client.
generateAnswerWithProvider_GeminiFallback ==
  /\ aPc = "awaiting"
  /\ gPc = "idle"
  /\ CASE provider = "gemini" -> generateAnswerStream(optionsApiKey)
       [] provider = "openai" -> generateOpenAIAnswer
       [] provider = "claude" -> generateClaudeAnswer
       [] OTHER -> generateAnswerStream(FALSE)

\* generateAnswerWithProvider (lines 20-43), called by handleGetAnswer.
generateAnswerWithProvider ==
  /\ aPc = "awaiting"
  /\ gPc = "idle"
  /\ CASE provider = "gemini" ->
            IF ~optionsApiKey THEN ProviderReject(MSG_NEED_GEMINI_KEY)
                              ELSE generateAnswerStream(TRUE)
       [] provider = "openai" -> generateOpenAIAnswer
       [] provider = "claude" -> generateClaudeAnswer
       [] OTHER -> generateAnswerStream(FALSE)

\* The message of the error thrown for a response that is not used
\* (lines 71-74, 80-82, 115-118, 124-126); a network failure is thrown by
\* fetch itself.
HttpErrorMessage(resp) ==
  IF resp.kind = "network" THEN MSG_FETCH_FAILED
  ELSE IF resp.status # "200"
    THEN (IF provider = "openai" THEN MSG_OPENAI_ERROR ELSE MSG_CLAUDE_ERROR)
    ELSE (IF provider = "openai" THEN MSG_OPENAI_EMPTY ELSE MSG_CLAUDE_EMPTY)

\* Variant: a 429 or 503 response is answered with another request.
HttpResponse_Retry(resp) ==
  /\ gPc = "fetching"
  /\ gRequests < MAX_RETRIES
  /\ resp.status \in {"429", "503"}
  /\ gRequests' = gRequests + 1
  /\ UNCHANGED <<gPc, attempt, gStatuses, gWaits, gClock, gReqTimes, gProduced,
                 gDelivered, gPrior, gError, gLastErr, defaultApiKey>>
  /\ UNCHANGED <<speechVars, appVars, probe>>

\* The rest of generateOpenAIAnswer / generateClaudeAnswer once fetch has
\* settled (lines 71-82, 115-126).
HttpResponse(resp) ==
  /\ gPc = "fetching"
  /\ IF resp.kind = "response" /\ resp.status = "200" /\ resp.content # ""
       THEN /\ gPc' = "resolved"
            /\ gDelivered' = Append(gDelivered, resp.content)
            /\ gError' = gError
            /\ AppOnChunk(resp.content)
       ELSE /\ gPc' = "rejected"
            /\ gError' = HttpErrorMessage(resp)
            /\ UNCHANGED gDelivered
            /\ UNCHANGED appVars
  /\ UNCHANGED <<attempt, gRequests, gStatuses, gWaits, gClock, gReqTimes,
                 gProduced, gPrior, gLastErr, defaultApiKey>>
  /\ UNCHANGED <<speechVars, probe>>

\* ------------------------------------------------------------- App
\* A handler continuation is pending in the microtask queue: no user event
\* is dispatched before it has run.
HandlerRunning == aPc = "awaiting" /\ gPc \in {"idle", "resolved", "rejected"}

\* handleGetAnswer up to its await (lines 109-129), called from the bubble
\* of a user message; now is Date.now().
handleGetAnswer(now) ==
  /\ AppReady
  /\ aPc = "idle"
  /\ gPc = "idle"
  /\ \E i \in 1..Len(chatMessages) : chatMessages[i].role = "user"
  /\ isGenerating' = TRUE
  /\ modelMessageId' = now
  /\ aSession' = activeSessionId
  /\ aPc' = "awaiting"
  /\ LET updated == Append(chatMessages, ModelShell(now))
     IN /\ chatMessages' = updated
        /\ sessions' = persistSessionMessages(sessions, activeSessionId, updated)
  /\ SaveSessions
  /\ UNCHANGED <<provider, optionsApiKey, activeSessionId, isHydrated, appCrashed>>
  /\ UNCHANGED <<speechVars, geminiVars, probe>>

\* The catch and finally blocks of handleGetAnswer (lines 131-152); every
\* error the providers throw is an Error, so its message is shown.
handleGetAnswerSettle ==
  /\ aPc = "awaiting"
  /\ gPc \in {"resolved", "rejected"}
  /\ LET caught == IF gPc = "rejected"
                     THEN ReplaceContent(chatMessages, modelMessageId, gError)
                     ELSE chatMessages
         updated == Finalize(caught, modelMessageId)
     IN /\ chatMessages' = updated
        /\ sessions' = persistSessionMessages(sessions, aSession, updated)
  /\ SaveSessions
  /\ isGenerating' = FALSE
  /\ aPc' = "done"
  /\ UNCHANGED <<provider, optionsApiKey, modelMessageId, aSession,
                 activeSessionId, isHydrated, appCrashed>>
  /\ UNCHANGED <<speechVars, geminiVars, probe>>

\* crypto.randomUUID() (line 21): an id that no session of ss has and that
\* no closure still holds.
FreshId(ss) ==
  LET used == {ss[i].id : i \in 1..Len(ss)} \cup {aSession}
      free == (1..(Len(ss) + 2)) \ used
  IN CHOOSE n \in free : \A k \in free : n <= k

\* createEmptySession (lines 18-27)
createEmptySession(ss) == [id |-> FreshId(ss), messages |-> <<>>]

\* handleStartNewSession (lines 186-192)
handleStartNewSession ==
  /\ AppReady
  /\ ~HandlerRunning
  /\ Len(sessions) < MaxSessions
  /\ LET newSession == createEmptySession(sessions)
     IN /\ sessions' = <<newSession>> \o sessions
        /\ activeSessionId' = newSession.id
  /\ chatMessages' = <<>>
  /\ SaveSessions
  /\ UNCHANGED <<provider, optionsApiKey, aPc, modelMessageId, aSession,
                 isGenerating, isHydrated, appCrashed>>
  /\ UNCHANGED <<speechVars, geminiVars, probe>>

\* Variant: the session is selected without being looked up.
handleSelectSession_NoLookup(sessionId) ==
  /\ AppReady
  /\ ~HandlerRunning
  /\ activeSessionId' = sessionId
  /\ chatMessages' =
       IF \E i \in 1..Len(sessions) : sessions[i].id = sessionId
         THEN sessions[CHOOSE i \in 1..Len(sessions) :
                         sessions[i].id = sessionId].messages
         ELSE <<>>
  /\ UNCHANGED <<provider, optionsApiKey, aPc, modelMessageId, aSession,
                 sessions, isGenerating, storeVars>>
  /\ UNCHANGED <<speechVars, geminiVars, probe>>

\* handleSelectSession (lines 194-203)
handleSelectSession(sessionId) ==
  /\ AppReady
  /\ ~HandlerRunning
  /\ IF \E i \in 1..Len(sessions) : sessions[i].id = sessionId
       THEN /\ activeSessionId' = sessionId
            /\ chatMessages' =
                 sessions[CHOOSE i \in 1..Len(sessions) :
                            sessions[i].id = sessionId].messages
       ELSE UNCHANGED <<activeSessionId, chatMessages>>
  /\ UNCHANGED <<provider, optionsApiKey, aPc, modelMessageId, aSession,
                 sessions, isGenerating, storeVars>>
  /\ UNCHANGED <<speechVars, geminiVars, probe>>

\* handleClearHistory (lines 205-217); confirmed is the answer to
\* window.confirm.
handleClearHistory(confirmed) ==
  /\ AppReady
  /\ ~HandlerRunning
  /\ IF confirmed
       THEN LET newSession == createEmptySession(sessions)
            IN /\ sessions' = <<newSession>>
               /\ activeSessionId' = newSession.id
               /\ chatMessages' = <<>>
       ELSE UNCHANGED <<sessions, activeSessionId, chatMessages>>
  /\ SaveSessions
  /\ UNCHANGED <<provider, optionsApiKey, aPc, modelMessageId, aSession,
                 isGenerating, isHydrated, appCrashed>>
  /\ UNCHANGED <<speechVars, geminiVars, probe>>

\* toggleRecording (lines 165-180) with the isRecording of the last render.
toggleRecording ==
  /\ AppReady
  /\ ~HandlerRunning
  /\ IF isRecording
       THEN /\ stopRecordingCall
            /\ UNCHANGED appVars
       ELSE /\ LET updated == RemoveLastUserMessage(chatMessages)
               IN /\ chatMessages' = updated
                  /\ sessions' =
                       persistSessionMessages(sessions, activeSessionId, updated)
            /\ SaveSessions
            /\ UNCHANGED <<provider, optionsApiKey, aPc, modelMessageId,
                           aSession, activeSessionId, isGenerating, isHydrated,
                           appCrashed>>
            /\ startRecordingCall
  /\ UNCHANGED <<geminiVars, probe>>

\* What the device hears in a session the App has started.
MicEvents == { << [isFinal |-> TRUE, alts |-> <<Alt(T_char, 90)>>] >> }

\* Failures and chunks of the Gemini backend as the App is driven with.
AppFailures == {f \in Failures : f.status \in {"429", "500"} /\ f.message = "boom"}
AppChunks == {"a", ""}

\* The items the app may find under STORAGE_KEY at mount.
StoredItems ==
  { NoItem,
    [kind |-> "unparsable", value |-> <<>>],
    [kind |-> "list", value |-> <<>>],
    [kind |-> "list", value |-> << [id |-> 1, messages |-> <<StoredQuestion>>] >>],
    [kind |-> "misshapen", value |-> << [id |-> 1] >>] }

\* The items the app may find under PROVIDER_STORAGE_KEY at mount.
StoredSettings ==
  {[kind |-> k, provider |-> "default", apiKey |-> FALSE] :
     k \in {"missing", "unparsable"}}
  \cup [kind : {"settings"}, provider : Providers, apiKey : BOOLEAN]

\* The effects of the mount (lines 219-249, 251-261, and the save effect
\* of the first render, in which isHydrated is false and sessions is
\* empty), the render that follows them and the save effect of that
\* render. The fallback effect (lines 283-288) finds activeSessionId set. A sessions item that is
\* missing (lines 236-240), that JSON.parse throws on (lines 241-245) or
\* that is an empty list (lines 231-235) gives one fresh session; a list is
\* taken as it is (lines 226-230), and when its first element has no
\* messages chatMessages is undefined and the render throws on
\* chatMessages.map (line 343).
hydrate(settings) ==
  /\ ~isHydrated
  /\ isHydrated' = TRUE
  /\ IF localStorage.kind \in {"list", "misshapen"} /\ Len(localStorage.value) > 0
       THEN /\ sessions' = localStorage.value
            /\ activeSessionId' = localStorage.value[1].id
            /\ IF localStorage.kind = "list"
                 THEN /\ chatMessages' = localStorage.value[1].messages
                      /\ appCrashed' = FALSE
                      /\ localStorage' =
                           SaveEffect(TRUE, SaveEffect(FALSE, localStorage, <<>>),
                                      sessions')
                 ELSE /\ chatMessages' = <<>>
                      /\ appCrashed' = TRUE
                      /\ localStorage' = SaveEffect(FALSE, localStorage, <<>>)
       ELSE /\ sessions' = <<createEmptySession(<<>>)>>
            /\ activeSessionId' = createEmptySession(<<>>).id
            /\ UNCHANGED <<chatMessages, appCrashed>>
            /\ localStorage' =
                 SaveEffect(TRUE, SaveEffect(FALSE, localStorage, <<>>), sessions')
  /\ IF settings.kind = "settings"
       THEN provider' = settings.provider /\ optionsApiKey' = settings.apiKey
       ELSE UNCHANGED <<provider, optionsApiKey>>
  /\ UNCHANGED <<aPc, modelMessageId, aSession, isGenerating>>
  /\ UNCHANGED <<speechVars, geminiVars, probe>>

\* The App as it is constructed (lines 41-50), over any stored sessions
\* item, before its first effects have run.
InitApp ==
  /\ device \in {"idle", "unavailable"}
  /\ isRecording = FALSE
  /\ isRecordingRef = FALSE
  /\ transcript = <<>>
  /\ rEmpty = TRUE
  /\ transcriptRef = <<>>
  /\ skipOnStopRef = FALSE
  /\ isManualStopRef = FALSE
  /\ lastProcessedIndexRef = 0
  /\ finalTranscriptPartsRef = <<>>
  /\ isMobileRef = FALSE
  /\ onStopLog = <<>>
  /\ hStop = FALSE
  /\ hCancel = FALSE
  /\ hError = FALSE
  /\ hCommitted = <<>>
  /\ lastEv = NoEvent
  /\ gPc = "idle"
  /\ attempt = 0
  /\ gRequests = 0
  /\ gStatuses = <<>>
  /\ gWaits = <<>>
  /\ gClock = 0
  /\ gReqTimes = <<>>
  /\ gProduced = <<>>
  /\ gDelivered = <<>>
  /\ gPrior = <<>>
  /\ gError = NoError
  /\ gLastErr = NoFailure
  /\ defaultApiKey \in BOOLEAN
  /\ provider = "default"
  /\ optionsApiKey = FALSE
  /\ aPc = "idle"
  /\ modelMessageId = 0
  /\ aSession = 0
  /\ chatMessages = <<>>
  /\ sessions = <<>>
  /\ activeSessionId = 0
  /\ isGenerating = FALSE
  /\ isHydrated = FALSE
  /\ localStorage \in StoredItems
  /\ appCrashed = FALSE
  /\ probe = NoProbe

NextApp ==
  \/ \E settings \in StoredSettings : hydrate(settings)
  \/ \E now \in NowReadings : handleGetAnswer(now)
  \/ generateAnswerWithProvider
  \/ GeminiRequest
  \/ \E chunk \in AppChunks : GeminiChunk(chunk)
  \/ GeminiReturn
  \/ \E failure \in AppFailures : GeminiCatch(failure)
  \/ GeminiWake
  \/ \E resp \in HttpResponses : HttpResponse(resp)
  \/ handleGetAnswerSettle
  \/ handleStartNewSession
  \/ \E sessionId \in 1..(MaxSessions + 1) : handleSelectSession(sessionId)
  \/ \E confirmed \in BOOLEAN : handleClearHistory(confirmed)

SpecApp == InitApp /\ [][NextApp]_vars

\* The steps of an answer that the runtime takes by itself: the call of the
\* backend, the end of an attempt and of a wait, the settling of fetch, and
\* the continuation of handleGetAnswer after its await.
AppFairness ==
  /\ WF_vars(generateAnswerWithProvider)
  /\ WF_vars(GeminiRequest)
  /\ WF_vars(GeminiReturn \/ \E failure \in AppFailures : GeminiCatch(failure))
  /\ WF_vars(GeminiWake)
  /\ WF_vars(\E resp \in HttpResponses : HttpResponse(resp))
  /\ WF_vars(handleGetAnswerSettle)

SpecAppLive == InitApp /\ [][NextApp]_vars /\ AppFairness

\* ------------------------------------------- the App and its microphone
\* The provider settings the App is mounted with when its microphone is
\* followed: none stored, or an OpenAI key.
MicSettings ==
  {st \in StoredSettings :
     \/ st.kind = "missing"
     \/ st.kind = "settings" /\ st.provider = "openai" /\ st.apiKey}

\* The App with the recognition hook it mounts: the mic button, the events
\* of the device, and the answer to a question over the HTTP backend.
NextMic ==
  \/ \E settings \in MicSettings : hydrate(settings)
  \/ toggleRecording
  \/ onstart
  \/ \E event \in MicEvents : onresult(event)
  \/ onend
  \/ render
  \/ \E now \in NowReadings : handleGetAnswer(now)
  \/ generateAnswerWithProvider
  \/ \E resp \in HttpResponses : HttpResponse(resp)
  \/ handleGetAnswerSettle

SpecMic == InitApp /\ [][NextMic]_vars

\* ================================================================ claims
\* A step of onend: the only handler that sets isRecording to false.
SessionEnds == isRecording /\ ~isRecording'

Range(q) == {q[i] : i \in 1..Len(q)}

\* C1: a session invokes onStop at most once, and its onend invokes it
\* exactly when stopRecording was called during the session, cancelRecording
\* was not, and the transcript is non-empty.
C1_OnStopIffManualStop ==
  [][SessionEnds =>
       /\ Len(onStopLog') <= 1
       /\ (onStopLog' # onStopLog) <=>
            (hStop /\ ~hCancel /\ transcript # <<>>)]_vars

\* C2: a slot delivered as interim in one event and as final in the next
\* event has its final text among the committed fragments, and so in the
\* transcript, after the later event.
C2_InterimThenFinalCommitted ==
  [][(lastEv # NoEvent /\ lastEv' # NoEvent) =>
       \A i \in 1..Len(lastEv') :
         (/\ i <= Len(lastEv)
          /\ ~lastEv[i].isFinal
          /\ lastEv'[i].isFinal
          /\ lastEv'[i].alts[1].transcript # <<>>)
         => /\ FinalText(lastEv'[i]) \in Range(hCommitted')
            /\ transcript' # <<>>]_vars

\* C3: once cancelRecording was called during a session, that
\* session never invokes onStop, whether stopRecording came before or comes
\* after; and right after the call the transcript, the fragment list and
\* the index cursor are empty.
C3_CancelSuppressesOnStop ==
  /\ [](hCancel => onStopLog = <<>>)
  /\ [][cancelRecording =>
          /\ transcript' = <<>>
          /\ transcriptRef' = <<>>
          /\ finalTranscriptPartsRef' = <<>>
          /\ hCommitted' = <<>>
          /\ lastProcessedIndexRef' = 0]_vars

\* Cancelled, then stopped with text recognised after the cancel: onend is
\* pending and only the skip flag keeps it from invoking onStop.
C3_Witness ==
  /\ hCancel
  /\ hStop
  /\ device = "stopping"
  /\ skipOnStopRef
  /\ isManualStopRef
  /\ transcriptRef # <<>>
  /\ onStopLog = <<>>

\* C4: the committed final fragments never contain the same text twice.
C4_NoDuplicateFragments ==
  \A i, j \in 1..Len(hCommitted) : hCommitted[i] = hCommitted[j] => i = j

\* C5: delivering the event that was just delivered once more leaves the
\* committed final text and the displayed transcript as they were.
C5_RedeliveryIdempotent ==
  [][(lastEv # NoEvent /\ lastEv' = lastEv) =>
       /\ transcript' = transcript
       /\ hCommitted' = hCommitted]_vars

\* C6: on mobile a session that ends without a manual stop or a cancel does
\* not invoke onStop and keeps the fragments and the transcript it had
\* accumulated for the restarted session.
C6_MobileAutoEndKeepsState ==
  [][(/\ SessionEnds
      /\ isMobileRef
      /\ ~hStop /\ ~hCancel /\ ~isManualStopRef
      /\ finalTranscriptPartsRef # <<>>) =>
       /\ onStopLog' = onStopLog
       /\ finalTranscriptPartsRef' = finalTranscriptPartsRef
       /\ transcript' = transcript]_vars

\* C7: after attempt k fails with 429 or 503 and k < MAX_RETRIES, the call
\* sleeps INITIAL_RETRY_DELAY_MS * 2^(k-1) and only then issues attempt
\* k + 1; two 429 failures followed by a success make exactly 3 requests,
\* at least 1000 ms and 2000 ms apart, and the call resolves.
C7_BackoffBeforeRetry ==
  /\ \A k \in 1..Len(gStatuses) :
       (gStatuses[k] \in {"429", "503"} /\ k < MAX_RETRIES) =>
         IF gRequests = k
           THEN /\ gPc \in {"sleeping", "loop"}
                /\ gPc = "loop" => Len(gWaits) = k
           ELSE /\ gRequests > k
                /\ Len(gWaits) >= k
                /\ gWaits[k] = INITIAL_RETRY_DELAY_MS * 2 ^ (k - 1)
                /\ gReqTimes[k + 1] >= gReqTimes[k] + gWaits[k]
  /\ (gStatuses = <<"429", "429">> /\ gRequests = 3) =>
       /\ gPc \in {"streaming", "resolved"}
       /\ gReqTimes[2] - gReqTimes[1] >= 1000
       /\ gReqTimes[3] - gReqTimes[2] >= 2000

C7_Witness ==
  /\ gStatuses = <<"429", "429">>
  /\ gRequests = 3
  /\ gWaits = <<1000, 2000>>
  /\ gPc = "resolved"

\* C8: when the last permitted attempt fails with 503 the call rejects with
\* the overloaded message, with 429 with the rate-limit message; in neither
\* case with a generic one.
C8_LastAttemptStatusMessage ==
  (Len(gStatuses) = MAX_RETRIES /\ gStatuses[MAX_RETRIES] \in {"429", "503"}) =>
    /\ gPc = "rejected"
    /\ gRequests = MAX_RETRIES
    /\ gStatuses[MAX_RETRIES] = "503" => gError = MSG_OVERLOADED
    /\ gStatuses[MAX_RETRIES] = "429" => gError = MSG_RATE_LIMIT

C8_Witness ==
  /\ gStatuses = <<"503", "429", "503">>
  /\ gPc = "rejected"
  /\ gError = MSG_OVERLOADED

AllRetryable == \A k \in 1..Len(gStatuses) : gStatuses[k] \in {"429", "503"}

\* C9 as stated: when every attempt fails with a retryable status the call
\* rejects with the generic "after multiple attempts" error.
C9_ExhaustionIsGeneric ==
  (gPc = "rejected" /\ Len(gStatuses) = MAX_RETRIES /\ AllRetryable) =>
    gError = MSG_EXHAUSTED

\* C9: when every attempt fails with a retryable status the call rejects,
\* after MAX_RETRIES requests and MAX_RETRIES - 1 sleeps, with the message
\* of the last failure's status; the "after multiple attempts" error is
\* never produced.
C9_ExhaustionIsStatusSpecific ==
  /\ gError # MSG_EXHAUSTED
  /\ (gPc = "rejected" /\ Len(gStatuses) = MAX_RETRIES /\ AllRetryable) =>
       /\ gRequests = MAX_RETRIES
       /\ Len(gWaits) = MAX_RETRIES - 1
       /\ gError = IF gStatuses[MAX_RETRIES] = "503" THEN MSG_OVERLOADED
                                                     ELSE MSG_RATE_LIMIT

C9_Witness ==
  /\ gPc = "rejected"
  /\ gStatuses = <<"429", "429", "429">>
  /\ gWaits = <<1000, 2000>>
  /\ gError = MSG_RATE_LIMIT

\* A failure whose status is neither 429 nor 503 is the last one: no request
\* and no sleep follow it, whatever preceded it.
NonRetryableIsTerminal(k) ==
  /\ k = Len(gStatuses)
  /\ gPc = "rejected"
  /\ gRequests = k
  /\ Len(gWaits) = k - 1
  /\ gLastErr.status = gStatuses[k]

\* C10 as stated: a failure with a status other than 429 and 503, or with
\* none, is terminal and the call rejects with the message the failure
\* carries.
C10_TerminalWithUnderlyingMessage ==
  \A k \in 1..Len(gStatuses) :
    (gStatuses[k] \notin {"429", "503"} /\ gLastErr.message # NoMessage) =>
      /\ NonRetryableIsTerminal(k)
      /\ gError = gLastErr.message

\* C10: a failure with a status other than 429 and 503, or with none, is
\* terminal and the call rejects with the message the failure carries when
\* that message is non-empty, with "Unknown error" when the failure has no
\* message, and with the fallback message when the message is empty.
C10_TerminalWithMessageOrFallback ==
  \A k \in 1..Len(gStatuses) :
    gStatuses[k] \notin {"429", "503"} =>
      /\ NonRetryableIsTerminal(k)
      /\ gError = IF gLastErr.message = NoMessage THEN "Unknown error"
                  ELSE IF gLastErr.message = "" THEN MSG_FALLBACK
                  ELSE gLastErr.message

C10_Witness ==
  /\ gStatuses = <<"429", "503", "500">>
  /\ gPc = "rejected"
  /\ gError = "boom"

\* The chunks of a stream that carry text, in order.
TextChunks(q) == SelectSeq(q, LAMBDA c : c # "")

\* C11 as stated: when an attempt succeeds, every chunk its stream produced
\* was passed to onChunk, in order and once; onChunk is not invoked after the
\* call resolved or rejected.
C11_EveryChunkDelivered ==
  /\ [](gPc = "resolved" => gDelivered = gPrior \o gProduced)
  /\ [][(gPc = "resolved" \/ gPc = "rejected") =>
          (gDelivered' = gDelivered)]_vars

\* C11: while an attempt streams and when it succeeds, exactly the chunks
\* with non-empty text its stream produced were passed to onChunk, in order
\* and once each; onChunk is not invoked after the call resolved or rejected.
C11_EveryTextChunkDelivered ==
  /\ [](gPc \in {"streaming", "resolved"} =>
          gDelivered = gPrior \o TextChunks(gProduced))
  /\ [][(gPc = "resolved" \/ gPc = "rejected") =>
          (gDelivered' = gDelivered)]_vars

C11_Witness ==
  /\ gPc = "resolved"
  /\ gProduced = <<"a", "b">>
  /\ gDelivered = <<"a", "b">>

\* C12: a failure that is retried takes nothing back from onChunk, and the
\* next attempt starts its stream from the beginning, so what onChunk saw
\* over the call is each attempt's delivered chunks one after the other.
C12_RetryRestartsFromBeginning ==
  /\ [](gRequests > 0 => gDelivered = gPrior \o TextChunks(gProduced))
  /\ [][(gPc = "streaming" /\ gPc' = "sleeping") =>
          gDelivered' = gDelivered]_vars
  /\ [][gRequests' = gRequests + 1 =>
          /\ gProduced' = <<>>
          /\ gPrior' = gDelivered
          /\ gDelivered' = gDelivered]_vars

C12_Witness ==
  /\ gStatuses = <<"429">>
  /\ gPrior = <<"a">>
  /\ gProduced = <<"a", "b">>
  /\ gDelivered = <<"a", "a", "b">>
  /\ gPc = "resolved"

\* The state of the hook: its React state and its refs.
hookState == <<device, isRecording, isRecordingRef, transcript, transcriptRef,
               skipOnStopRef, isManualStopRef, lastProcessedIndexRef,
               finalTranscriptPartsRef, isMobileRef>>

\* C16: startRecording while a session is requested or active, and
\* stopRecording while no session is active, change nothing: no second
\* device start, no manual-stop mark, no device termination.
C16_ReentrantStartStopNoOp ==
  [][((startRecording /\ device # "idle") \/ (stopRecording /\ device = "idle"))
       => UNCHANGED hookState]_vars

\* C17: once cancelRecording was called for a session, the transcript and
\* the committed fragments stay empty whatever events the session still
\* delivers.
C17_CancelMakesEventsInert ==
  hCancel =>
    /\ transcript = <<>>
    /\ hCommitted = <<>>
    /\ finalTranscriptPartsRef = <<>>

NoDuplicates(q) == \A i, j \in 1..Len(q) : q[i] = q[j] => i = j

\* What the desktop strategy displays for an event: every slot from the
\* first one, nothing carried over from earlier events.
DesktopTranscript(event) ==
  LET acc == ProcessSlots(event, 1, [finals |-> <<>>, interim |-> <<>>])
  IN BuildTranscript(Join(acc.finals), acc.interim)

\* C19: when no final text is duplicated, the transcript displayed after an
\* event is the one the desktop strategy displays for that event, on the
\* mobile class as well; the result of a manual stop is taken from it.
C19_MobileMatchesDesktop ==
  [][(/\ lastEv' # NoEvent
      /\ NoDuplicates(hCommitted')
      /\ NoDuplicates(ProcessSlots(lastEv', 1,
                        [finals |-> <<>>, interim |-> <<>>]).finals))
       => (/\ transcript' = DesktopTranscript(lastEv')
           /\ transcriptRef' = transcript')]_vars

\* C18: interim-only events, then an all-final event, then a manual stop:
\* two runs that differ only in the interim texts pass the same text to
\* onStop, or both pass none.
C18_InterimTextNeverEmitted ==
  (probe # NoProbe /\ probe.phase = "done") => probe.outA = probe.outB

C18_Witness ==
  /\ probe # NoProbe
  /\ probe.phase = "done"
  /\ probe.mobile
  /\ probe.runA # probe.runB
  /\ probe.outA # <<>>

\* The credential the routed backend requires is absent.
CredentialAbsent ==
  \/ provider \in {"openai", "claude"} /\ ~optionsApiKey
  \/ provider \in {"default", "gemini"} /\ ~optionsApiKey /\ ~defaultApiKey

MissingKeyMessages ==
  {MSG_NEED_OPENAI_KEY, MSG_NEED_CLAUDE_KEY, MSG_NEED_GEMINI_KEY, MSG_NO_KEY}

\* C13: when the credential the provider requires is absent, the call can
\* only reject, with a message that names the missing key; no request is
\* issued, onChunk is never invoked, and nothing is retried or waited for.
C13_MissingCredentialFailsFast ==
  CredentialAbsent =>
    /\ gPc \in {"idle", "rejected"}
    /\ gPc = "rejected" => gError \in MissingKeyMessages
    /\ gRequests = 0
    /\ gDelivered = <<>>
    /\ attempt = 0
    /\ gWaits = <<>>
    /\ \A i \in 1..Len(chatMessages) :
         chatMessages[i].id = modelMessageId /\ aPc = "awaiting"
           => chatMessages[i].content = <<>>

C13_Witness ==
  /\ CredentialAbsent
  /\ aPc = "awaiting"
  /\ gPc = "rejected"
  /\ gError \in MissingKeyMessages
  /\ gRequests = 0

\* The call was rejected for a missing key, before any request.
ConfigurationError == gPc = "rejected" /\ gRequests = 0

\* C14 as stated: with provider gemini and no caller key the call fails for
\* a missing key only when the environment key is absent too.
C14_GeminiFallsBackToEnvironmentKey ==
  (provider = "gemini" /\ ~optionsApiKey /\ ConfigurationError) => ~defaultApiKey

\* C14: the environment key serves provider default only. With provider
\* default the call goes to the Gemini backend when the environment key is
\* present and fails for the missing key when it is absent; with provider
\* gemini and no caller key it fails for the missing key whether or not an
\* environment key is present.
C14_EnvironmentKeyServesDefaultOnly ==
  /\ (provider = "default" /\ defaultApiKey) => ~ConfigurationError
  /\ (provider = "default" /\ ~defaultApiKey) =>
       /\ gPc \in {"idle", "rejected"}
       /\ gPc = "rejected" => gError = MSG_NO_KEY
       /\ gRequests = 0
  /\ (provider = "gemini" /\ ~optionsApiKey) =>
       /\ gPc \in {"idle", "rejected"}
       /\ gPc = "rejected" => gError = MSG_NEED_GEMINI_KEY
       /\ gRequests = 0

C14_Witness ==
  /\ provider = "gemini"
  /\ ~optionsApiKey
  /\ defaultApiKey
  /\ aPc = "awaiting"
  /\ gPc = "rejected"
  /\ gError = MSG_NEED_GEMINI_KEY

\* The call went to the openai or claude backend with its key.
RoutedToHttpBackend == provider \in {"openai", "claude"} /\ optionsApiKey

HttpFailureMessages ==
  {MSG_OPENAI_ERROR, MSG_CLAUDE_ERROR, MSG_OPENAI_EMPTY, MSG_CLAUDE_EMPTY,
   MSG_FETCH_FAILED}

\* C15: a call routed to the openai or claude backend issues one request and
\* never a second one, whatever the response; when it resolves onChunk has
\* been invoked exactly once, with the content field; when it rejects
\* (a status that is not OK, 429 and 503 included, an empty content field or
\* a failed fetch) onChunk has not been invoked, and nothing is retried or
\* waited for.
C15_HttpBackendSingleShot ==
  RoutedToHttpBackend =>
    /\ gPc \in {"idle", "fetching", "resolved", "rejected"}
    /\ gRequests = (IF gPc = "idle" THEN 0 ELSE 1)
    /\ attempt = 0
    /\ gWaits = <<>>
    /\ gPc = "resolved" => Len(gDelivered) = 1 /\ gDelivered[1] # ""
    /\ gPc # "resolved" => gDelivered = <<>>
    /\ gPc = "rejected" => gError \in HttpFailureMessages

C15_Witness ==
  /\ RoutedToHttpBackend
  /\ gPc = "rejected"
  /\ gRequests = 1
  /\ gError \in {MSG_OPENAI_ERROR, MSG_CLAUDE_ERROR}
  /\ gDelivered = <<>>

\* The messages stored for a session.
StoredMessages(ss, sessionId) ==
  IF \E i \in 1..Len(ss) : ss[i].id = sessionId
    THEN ss[CHOOSE i \in 1..Len(ss) : ss[i].id = sessionId].messages
    ELSE <<>>

\* The messages of a list other than the model message of the turn.
OtherMessages(messages) == SelectSeq(messages, LAMBDA m : m.id # modelMessageId)

\* The step in which handleGetAnswer handles the rejection.
RejectionHandled == aPc = "awaiting" /\ gPc = "rejected" /\ aPc' = "done"

\* C20: when answer generation rejects, the step that handles the rejection
\* leaves the model message of the turn, in the session it was created in,
\* with the error's message as its content, and changes no other message of
\* any session.
C20_RejectionShownInTurnMessage ==
  [][RejectionHandled =>
       /\ \E i \in 1..Len(StoredMessages(sessions', aSession)) :
            LET m == StoredMessages(sessions', aSession)[i]
            IN m.id = modelMessageId /\ m.content = <<gError>>
       /\ \A i \in 1..Len(sessions) :
            OtherMessages(StoredMessages(sessions', sessions[i].id))
              = OtherMessages(sessions[i].messages)
       /\ OtherMessages(chatMessages') = OtherMessages(chatMessages)]_vars

\* The text has been corrected.
Corrected == probe # NoProbe /\ probe.phase = "done"

\* C21: correctTechnicalTerms applied to its own output returns that output.
C21_CorrectionIdempotent == Corrected => probe.twice = probe.once

\* The number of whole-word occurrences of a word in a text.
CountWord(s, word) == Cardinality({i \in 1..Len(s) : MatchesAt(s, i, word)})

\* Words that contain the correction target "car" and are no target.
EmbeddingWords == { <<"c", "a", "r", "t">>, <<"s", "c", "a", "r">> }

CorrectionTargets ==
  {TECHNICAL_CORRECTIONS_CHARS[k][1] : k \in 1..Len(TECHNICAL_CORRECTIONS_CHARS)}

\* C22: a word that only contains a correction target is left as it is: the
\* corrected text has as many occurrences of it as the spoken text, and a
\* text in which no target occurs as a whole word comes back unchanged but
\* for its capitalised first letter.
C22_SubstringNeverRewritten ==
  Corrected =>
    /\ \A word \in EmbeddingWords :
         CountWord(probe.once, word) = CountWord(probe.text, word)
    /\ ~TestWords(probe.text, CorrectionTargets)
         => probe.once = CapitalizeFirstChar(probe.text)

C22_Witness ==
  /\ Corrected
  /\ CountWord(probe.text, <<"c", "a", "r", "t">>) = 1
  /\ CountWord(probe.text, <<"c", "a", "r">>) = 1
  /\ CountWord(probe.once, <<"c", "a", "r", "t">>) = 1
  /\ CountWord(probe.once, <<"c", "a", "r">>) = 0

\* C28: in a text without any word of the context predicate the homophones
\* care, chair and chore are left as they are.
C28_HomophonesNeedContext ==
  (Corrected /\ ~TestWords(probe.text, CONTEXT_CHARS)) =>
    \A word \in HOMOPHONES_CHARS :
      CountWord(probe.once, word) = CountWord(probe.text, word)

\* The step in which the load from storage completes.
HydrationCompletes == ~isHydrated /\ isHydrated'

\* The stored item is missing, unparsable or an empty list.
NothingStored ==
  \/ localStorage.kind \in {"missing", "unparsable"}
  \/ localStorage.kind = "list" /\ localStorage.value = <<>>

\* C23: whatever is stored, the load ends hydrated, without a crash and with
\* a usable state: a non-empty session list whose active session exists;
\* and when the stored item is missing, unparsable or an empty list the
\* state is exactly one empty session, active, with no messages shown.
C23_HydrationAlwaysUsable ==
  [][HydrationCompletes =>
       /\ ~appCrashed'
       /\ sessions' # <<>>
       /\ \E i \in 1..Len(sessions') : sessions'[i].id = activeSessionId'
       /\ NothingStored =>
            /\ Len(sessions') = 1
            /\ sessions'[1].messages = <<>>
            /\ activeSessionId' = sessions'[1].id
            /\ chatMessages' = <<>>]_vars

\* The step is the onstart of a session.
SessionStarts == device = "starting" /\ device' = "listening"

\* C24: onstart resets the transcript, its ref, the committed fragments, the
\* index cursor and the manual-stop flag. From then to the end of the
\* session the transcript shown changes only by being cleared or by being
\* rebuilt from an event of the session and the fragments committed since
\* the start, the ref read at the end equals the transcript shown, and a
\* result emitted at the end is that transcript post-processed.
C24_SessionShowsOnlyItsOwnText ==
  /\ [][SessionStarts =>
          /\ transcript' = <<>>
          /\ transcriptRef' = <<>>
          /\ finalTranscriptPartsRef' = <<>>
          /\ lastProcessedIndexRef' = 0
          /\ ~isManualStopRef']_vars
  /\ [](isRecording => transcriptRef = transcript)
  /\ [][(isRecording /\ isRecording' /\ transcript' # transcript) =>
          \/ transcript' = <<>>
          \/ /\ lastEv' # NoEvent
             /\ transcript' =
                  ReconcileEvent(isMobileRef, finalTranscriptPartsRef,
                                 lastProcessedIndexRef, lastEv').transcript]_vars
  /\ [][(SessionEnds /\ onStopLog' # onStopLog) =>
          onStopLog' = Append(onStopLog, postProcessTranscript(transcript))]_vars

\* A session that was started by onstart shows a transcript built from one
\* of its events.
C24_Witness ==
  /\ device = "listening"
  /\ isRecording
  /\ lastEv # NoEvent
  /\ transcript # <<>>
  /\ transcriptRef = transcript
  /\ finalTranscriptPartsRef # <<>>

\* The text of the last non-final slot of an event, '' when it has none.
RECURSIVE LastInterim(_)
LastInterim(event) ==
  IF event = <<>> THEN <<>>
  ELSE IF ~event[Len(event)].isFinal
    THEN event[Len(event)].alts[1].transcript
    ELSE LastInterim(SubSeq(event, 1, Len(event) - 1))

\* C25: after every recognition event the transcript shown is the
\* post-processed text of the committed final fragments followed by the text
\* of the last non-final slot of that event, when it has one.
C25_TranscriptIsFinalsThenLastInterim ==
  lastEv # NoEvent =>
    transcript = postProcessTranscript(Join(hCommitted) \o LastInterim(lastEv))

\* The highest confidence among the alternatives of a slot.
MaxConfidence(result) ==
  CHOOSE c \in {result.alts[j].confidence : j \in 1..Len(result.alts)} :
    \A j \in 1..Len(result.alts) : result.alts[j].confidence <= c

\* The text the selection rule gives: that of an alternative with the
\* highest confidence when it exceeds the threshold, else that of the first.
SelectedBy(result, text) ==
  IF MaxConfidence(result) > CONFIDENCE_THRESHOLD
    THEN \E j \in 1..Len(result.alts) :
           /\ result.alts[j].confidence = MaxConfidence(result)
           /\ result.alts[j].transcript = text
    ELSE text = result.alts[1].transcript

SlotRead == probe # NoProbe /\ probe.phase = "done"

DeviceEnds == device # "idle" /\ device' = "idle"

\* C27, first half: the error event leaves the React state, the refs and
\* the record of onStop calls as they were.
C27_ErrorEventIsInert ==
  [][onerror =>
       /\ UNCHANGED <<isRecording, isRecordingRef, transcript, transcriptRef,
                      skipOnStopRef, isManualStopRef, lastProcessedIndexRef,
                      finalTranscriptPartsRef, isMobileRef>>
       /\ onStopLog' = onStopLog]_vars

\* C27: the error event is inert, and the end of a session in which the
\* device raised an error invokes onStop exactly when stopRecording was
\* called during the session, cancelRecording was not, and the transcript
\* is non-empty.
C27_ErrorEndFollowsStopRule ==
  /\ C27_ErrorEventIsInert
  /\ [][(DeviceEnds /\ hError) =>
          ((onStopLog' # onStopLog) <=>
             (hStop /\ ~hCancel /\ transcript # <<>>))]_vars

\* ---------------------------------------------------------------- C29
\* C29: within one call the attempt counter is in 0..MAX_RETRIES, at most
\* MAX_RETRIES requests are issued, and the call never sleeps once the
\* last permitted attempt has failed: it sleeps only with the counter
\* below MAX_RETRIES, and fewer than MAX_RETRIES times in all.
C29_AttemptsAndWaitsBounded ==
  /\ attempt \in 0..MAX_RETRIES
  /\ gRequests <= MAX_RETRIES
  /\ attempt <= gRequests
  /\ gPc = "sleeping" => attempt < MAX_RETRIES
  /\ Len(gWaits) < MAX_RETRIES
  /\ Len(gStatuses) = MAX_RETRIES => gPc = "rejected"

\* The last permitted attempt has failed with a retryable status after two
\* backoff waits, and the call has rejected.
C29_Witness ==
  /\ attempt = MAX_RETRIES
  /\ gRequests = MAX_RETRIES
  /\ Len(gWaits) = MAX_RETRIES - 1
  /\ isRetryable(gStatuses[MAX_RETRIES])
  /\ gPc = "rejected"

\* ---------------------------------------------------------------- C30
GeminiCalled == gPc # "idle"

GeminiSettled == gPc \in {"resolved", "rejected"}

\* C30: every generateAnswerStream call eventually resolves or rejects,
\* whatever the backend answers, when every attempt and every backoff wait
\* ends.
C30_CallEventuallySettles == GeminiCalled ~> GeminiSettled

\* A call settled after a retryable failure, a backoff wait and a retry
\* that streamed text.
C30_Witness ==
  /\ gPc = "resolved"
  /\ gStatuses = <<"503">>
  /\ gWaits = <<INITIAL_RETRY_DELAY_MS>>
  /\ gDelivered # <<>>

\* ---------------------------------------------------------------- C33
\* C33: the text onend passes to onStop, the post-processed displayed
\* transcript, is the displayed transcript itself.
C33_EmittedIsDisplayed == Corrected => probe.emitted = probe.shown

\* ---------------------------------------------------------------- C32
\* C32: whatever cancelRecording calls were made while no session was
\* active, a session that was started, received speech and was stopped
\* manually, and was not cancelled itself, invokes onStop at its end with
\* its transcript.
C32_IdleCancelLeavesLaterSessionsAlone ==
  [][(SessionEnds /\ hStop /\ ~hCancel /\ transcript # <<>>) =>
       onStopLog' = Append(onStopLog, postProcessTranscript(transcript))]_vars

\* ---------------------------------------------------------------- C34
\* C34: the stored messages of a session change only in a step in which
\* that session is the active one, so the chunks, the error text and the
\* finalization of an answer never put the messages of the displayed
\* session into another session.
C34_StoredMessagesChangeOnlyWhileActive ==
  [][\A i \in 1..Len(sessions) : \A j \in 1..Len(sessions') :
       (/\ sessions[i].id = sessions'[j].id
        /\ sessions'[j].messages # sessions[i].messages)
       => sessions[i].id = activeSessionId]_vars

\* ---------------------------------------------------------------- C36
SessionIds(ss) == {ss[i].id : i \in 1..Len(ss)}

\* C36: once hydration has completed the session list is non-empty and
\* activeSessionId is the id of one of its sessions, whatever sessions are
\* created, selected or cleared; selecting an id no session has changes
\* neither the list nor the active session nor the displayed messages.
C36_ActiveSessionAlwaysListed ==
  /\ [](isHydrated =>
          /\ sessions # <<>>
          /\ activeSessionId \in SessionIds(sessions))
  /\ [][\A sessionId \in 1..(MaxSessions + 1) :
          (handleSelectSession(sessionId) /\ sessionId \notin SessionIds(sessions))
          => UNCHANGED <<sessions, activeSessionId, chatMessages>>]_vars

\* The history was cleared after a second session had been created: the
\* one session left has an id neither of them had.
C36_Witness ==
  /\ isHydrated
  /\ Len(sessions) = 1
  /\ activeSessionId = 3

\* ---------------------------------------------------------------- C37
\* C37: the item under STORAGE_KEY is written only by a render in which
\* hydration has completed, and then with the session list of that render,
\* which is not empty; a list of sessions found in storage at the mount is
\* still there when hydration completes.
C37_NoSaveBeforeLoad ==
  /\ [][localStorage' # localStorage =>
          /\ isHydrated'
          /\ sessions' # <<>>
          /\ localStorage' = [kind |-> "list", value |-> sessions']]_vars
  /\ [][(HydrationCompletes /\ localStorage.value # <<>>) =>
          localStorage'.value = localStorage.value]_vars

\* The sessions found in storage were loaded, and a later save wrote them
\* back together with a session created since.
C37_Witness ==
  /\ isHydrated
  /\ localStorage.kind = "list"
  /\ Len(localStorage.value) = 2
  /\ \E i \in 1..2 : localStorage.value[i].messages = <<StoredQuestion>>

\* ---------------------------------------------------------------- C38
\* The last message is a user message.
LastIsUser(messages) ==
  messages # <<>> /\ messages[Len(messages)].role = "user"

\* A device session is started by the step.
RecordingStarts == device = "idle" /\ device' = "starting"

\* C38: a mic toggle while not recording removes the last message exactly
\* when it is a user message and a recording is started; what it removes
\* is that one message, and a toggle that starts no recording leaves the
\* messages as they are.
C38_ToggleRemovesOnlyRetakenQuestion ==
  [][(toggleRecording /\ ~isRecording) =>
       /\ (chatMessages' # chatMessages) <=>
            (LastIsUser(chatMessages) /\ RecordingStarts)
       /\ chatMessages' # chatMessages =>
            /\ chatMessages' = SubSeq(chatMessages, 1, Len(chatMessages) - 1)
            /\ chatMessages[Len(chatMessages)].role = "user"]_vars

\* ---------------------------------------------------------------- C35
\* A chunk is handed to onChunk by the step.
ChunkDelivered == Len(gDelivered') = Len(gDelivered) + 1

\* The positions of the chat at which the step changes a message.
ChangedMessages ==
  {i \in 1..Len(chatMessages) :
     i > Len(chatMessages') \/ chatMessages'[i] # chatMessages[i]}

\* C35: a chunk is appended to exactly one message, the model message that
\* the handleGetAnswer call in flight created, and to no other message.
C35_ChunkGoesToItsOwnMessage ==
  [][ChunkDelivered =>
       /\ Len(chatMessages') = Len(chatMessages)
       /\ \E i \in 1..Len(chatMessages) :
            /\ ChangedMessages = {i}
            /\ chatMessages[i].role = "model"
            /\ chatMessages[i].id = modelMessageId
            /\ chatMessages'[i] =
                 [chatMessages[i] EXCEPT
                    !.content = Append(@, gDelivered'[Len(gDelivered')])]]_vars

\* ---------------------------------------------------------------- C31
\* The messages displayed and the messages of every session of the list.
AllMessages ==
  Range(chatMessages) \cup
  UNION {Range(sessions[i].messages) :
           i \in {k \in 1..Len(sessions) : "messages" \in DOMAIN sessions[k]}}

\* The model message of the handleGetAnswer call is final, in the chat or
\* in a session of the list.
OwnMessageFinal ==
  \E m \in AllMessages :
    m.id = modelMessageId /\ m.role = "model" /\ m.isFinal

\* A model message that is not final belongs to the call in flight.
NonFinalOnlyInFlight ==
  \A m \in AllMessages :
    (m.role = "model" /\ ~m.isFinal) =>
      (aPc = "awaiting" /\ m.id = modelMessageId)

\* C31: the model message of a handleGetAnswer call becomes final whether
\* the generation resolves or rejects, unless its session has been cleared
\* away, and a model message is not final only while its own call is in
\* flight.
C31_ModelMessageBecomesFinal ==
  /\ []NonFinalOnlyInFlight
  /\ (aPc = "awaiting") ~> (OwnMessageFinal \/ aSession \notin SessionIds(sessions))

====
